---- MODULE Spec2Model ----
(***************************************************************************)
(* ProjectFlow AI: the task/project store, the completion aggregator, the  *)
(* recursive task deletion, the REST routes that mutate tasks and projects *)
(* and the action interpreter of POST /api/ai/chat.                        *)
(*                                                                         *)
(* Two specifications share the state:                                     *)
(*   Spec         the request handlers (REST routes and AI actions), each  *)
(*                handler or AI action one atomic step, requests never     *)
(*                overlapping;                                             *)
(*   SpecStorage  the project, task and aggregation methods of             *)
(*                DatabaseStorage called directly with arbitrary arguments.*)
(***************************************************************************)
EXTENDS Integers, Sequences, FiniteSets, TLC

\* ---------------------------------------------------------------- bounds
MaxTasks == 3
MaxProjects == 2
MaxOps == 5
MaxBatch == 3
MaxBodyFields == 1
MaxCategories == 2

\* ------------------------------------------------------------ value sets
Null == 0
\* the sentinel "NEW_PROJECT" of a create_task action
NEW_PROJECT == -1
\* no percentage given or written
NoValue == -1000

TaskIds == 1..MaxTasks
ProjectIds == 1..MaxProjects
\* percentages a request body or an AI action may carry
PcInputs == {0, 50, 99, 100}
Statuses == {"pending", "in-progress", "completed", "blocked"}
TaskFields == {"percentComplete", "isCompleted", "status", "parentTaskId", "projectId"}

\* free text of a roadblocks column ("null": the column is null)
Roadblocks == {"null", "vendor delay"}

\* categories: ids and names are strings; "null" is the null category of a
\* project and "undefined" a categoryId the action does not carry
CategoryIds == {"c1", "c2"}
CategoryNames == {"Design", "design", "Ops", "c1"}
CategoryInputs == {"undefined", "c1", "c2", "C1", "DESIGN", "ops", "Legal"}
CategoryLists ==
  UNION {{l \in [1..n -> [id : CategoryIds, name : CategoryNames]] :
            \A i, j \in 1..n : l[i].id = l[j].id => i = j} : n \in 0..MaxCategories}

\* String.prototype.toLowerCase on the strings above
toLowerCase(s) ==
  CASE s \in {"Design", "design", "DESIGN"} -> "design"
    [] s \in {"Ops", "ops"} -> "ops"
    [] s \in {"c1", "C1"} -> "c1"
    [] s = "Legal" -> "legal"
    [] OTHER -> s

\* the points of an action at which a storage call may reject: its store
\* operation (nothing written yet), or one of the recalculations after it
Faults == {"none", "store", "recalcParent", "recalcProject"}

VARIABLES
  tasks,                 \* the tasks table: id -> row
  projects,              \* the projects table: id -> row
  categories,            \* the categories table, in the order getAllCategories returns it
  aiContent,             \* the text the AI call of the chat request returned
  actionResult,          \* what the chat request parsed from it
  frames,                \* the stream frames the chat request has written
  res,                   \* the chat response: "none" | "open" | "stream" | "ended" | "json500"
  isStreaming,           \* the client's isStreaming flag
  race,                  \* two overlapping PATCH /api/tasks requests, store call by store call
  allTasks,              \* the task list handed to buildTaskTree
  tree,                  \* the forest buildTaskTree returned
  nextTaskId,            \* ids handed out so far (ids are never reused)
  nextProjectId,
  chat,                  \* position of the one /api/ai/chat request: "idle" | "running"
  executedActions,       \* the chat request's execution log
  newlyCreatedProjectId, \* the chat request's "last created project" slot
  batchLen,              \* actions of the current batch processed so far
  hung,                  \* a handler entered a cascade or a deletion that never returns
  nops,                  \* operations performed (bounds the exploration)
  last                   \* history: the operation that produced this state

vars == <<tasks, projects, categories, nextTaskId, nextProjectId, chat, executedActions,
          newlyCreatedProjectId, batchLen, hung, nops, last,
          aiContent, actionResult, frames, res, isStreaming, race, allTasks, tree>>

\* ------------------------------------------------------- store helpers
RECURSIVE SumPercent(_, _)
SumPercent(ts, S) ==
  IF S = {} THEN 0
  ELSE LET c == CHOOSE x \in S : TRUE
       IN ts[c].percentComplete + SumPercent(ts, S \ {c})

\* mutant: Math.floor in place of Math.round
MathRoundDiv_Truncate(total, n) == total \div n

\* Math.round(total / n) for n > 0: the nearest integer, a half rounding up
MathRoundDiv(total, n) == (2 * total + n) \div (2 * n)

ChildrenOf(ts, id) == {c \in DOMAIN ts : ts[c].parentTaskId = id}
RootTasksOf(ts, p) == {t \in DOMAIN ts : ts[t].projectId = p /\ ts[t].parentTaskId = Null}

\* ------------------------------------------------ completion aggregator
\* mutant: the root filter is left out, every task of the project counts
ProjectCompletionWrite_AllTasks(ts, ps, projectId) ==
  LET projectTasks == {t \in DOMAIN ts : ts[t].projectId = projectId}
  IN IF projectTasks = {} THEN 0
     ELSE MathRoundDiv(SumPercent(ts, projectTasks), Cardinality(projectTasks))

\* the percentage recalculateProjectCompletion writes with its UPDATE (it
\* issues the UPDATE whatever the project holds, and also for a missing id)
ProjectCompletionWrite(ts, ps, projectId) ==
  LET rootTasks == RootTasksOf(ts, projectId)
  IN IF rootTasks = {} THEN 0
     ELSE MathRoundDiv(SumPercent(ts, rootTasks), Cardinality(rootTasks))

recalculateProjectCompletion(ts, ps, projectId) ==
  LET w == ProjectCompletionWrite(ts, ps, projectId)
  IN IF w # NoValue /\ projectId \in DOMAIN ps
     THEN [ps EXCEPT ![projectId].percentComplete = w]
     ELSE ps

\* mutant: an average of 0 forces the status back to "pending"
AggregatedTask_ForcePending(parentTask, avgPercent) ==
  [parentTask EXCEPT
     !.percentComplete = avgPercent,
     !.isCompleted = (avgPercent = 100),
     !.status = IF avgPercent = 100 THEN "completed"
                ELSE IF avgPercent > 0 THEN "in-progress"
                ELSE "pending"]

AggregatedTask(parentTask, avgPercent) ==
  [parentTask EXCEPT
     !.percentComplete = avgPercent,
     !.isCompleted = (avgPercent = 100),
     !.status = IF avgPercent = 100 THEN "completed"
                ELSE IF avgPercent > 0 THEN "in-progress"
                ELSE parentTask.status]

\* fuel bounds the recursion: on a parent cycle the code recurses for ever
RECURSIVE recalculateParentTaskCompletion(_, _, _)
\* mutant: the parent is updated but the cascade does not go up
recalculateParentTaskCompletion_NoCascade(ts, parentTaskId, fuel) ==
  IF fuel = 0 \/ parentTaskId \notin DOMAIN ts \/ ChildrenOf(ts, parentTaskId) = {} THEN ts
  ELSE LET children == ChildrenOf(ts, parentTaskId)
           avgPercent == MathRoundDiv(SumPercent(ts, children), Cardinality(children))
       IN [ts EXCEPT ![parentTaskId] = AggregatedTask(ts[parentTaskId], avgPercent)]

\* mutant: no early return for a childless task, whose average counts as 0
recalculateParentTaskCompletion_NoLeafGuard(ts, parentTaskId, fuel) ==
  IF fuel = 0 \/ parentTaskId \notin DOMAIN ts THEN ts
  ELSE LET parentTask == ts[parentTaskId]
           children == ChildrenOf(ts, parentTaskId)
           avgPercent == IF children = {} THEN 0
                         ELSE MathRoundDiv(SumPercent(ts, children), Cardinality(children))
           upd == [ts EXCEPT ![parentTaskId] = AggregatedTask(parentTask, avgPercent)]
       IN IF parentTask.parentTaskId # Null
          THEN recalculateParentTaskCompletion(upd, parentTask.parentTaskId, fuel - 1)
          ELSE upd

\* mutant: the sum starts from the parent's own percentage instead of 0
recalculateParentTaskCompletion_OwnInSum(ts, parentTaskId, fuel) ==
  IF fuel = 0 \/ parentTaskId \notin DOMAIN ts \/ ChildrenOf(ts, parentTaskId) = {} THEN ts
  ELSE LET parentTask == ts[parentTaskId]
           children == ChildrenOf(ts, parentTaskId)
           avgPercent == MathRoundDiv(parentTask.percentComplete + SumPercent(ts, children),
                                      Cardinality(children))
           upd == [ts EXCEPT ![parentTaskId] = AggregatedTask(parentTask, avgPercent)]
       IN IF parentTask.parentTaskId # Null
          THEN recalculateParentTaskCompletion(upd, parentTask.parentTaskId, fuel - 1)
          ELSE upd

recalculateParentTaskCompletion(ts, parentTaskId, fuel) ==
  IF fuel = 0 \/ parentTaskId \notin DOMAIN ts THEN ts
  ELSE LET parentTask == ts[parentTaskId]
           children == ChildrenOf(ts, parentTaskId)
       IN IF children = {} THEN ts
          ELSE LET avgPercent == MathRoundDiv(SumPercent(ts, children), Cardinality(children))
                   upd == [ts EXCEPT ![parentTaskId] = AggregatedTask(parentTask, avgPercent)]
               IN IF parentTask.parentTaskId # Null
                  THEN recalculateParentTaskCompletion(upd, parentTask.parentTaskId, fuel - 1)
                  ELSE upd

\* whether the upward cascade started at parentTaskId returns
RECURSIVE CascadeReturns(_, _, _)
CascadeReturns(ts, parentTaskId, fuel) ==
  IF parentTaskId \notin DOMAIN ts \/ ChildrenOf(ts, parentTaskId) = {} THEN TRUE
  ELSE IF ts[parentTaskId].parentTaskId = Null THEN TRUE
  ELSE IF fuel = 0 THEN FALSE
  ELSE CascadeReturns(ts, ts[parentTaskId].parentTaskId, fuel - 1)

Fuel(ts) == Cardinality(DOMAIN ts) + 1


\* --------------------------------------------------- record store (CRUD)
\* the foreign keys of a task row: projectId is required and references a
\* project, parentTaskId is null or references a task
TaskFkOk(ts, ps, row) ==
  /\ row.projectId \in DOMAIN ps
  /\ row.parentTaskId = Null \/ row.parentTaskId \in DOMAIN ts

Without(f, id) == [x \in (DOMAIN f) \ {id} |-> f[x]]
With(f, id, row) == [x \in (DOMAIN f) \cup {id} |-> IF x = id THEN row ELSE f[x]]

createTask(ts, id, insertTask) == With(ts, id, insertTask)
createProject(ps, id, insertProject) == With(ps, id, insertProject)

\* a partial row: the fields in has are present, the others are not sent
FieldOr(updates, f, old) == IF f \in updates.has THEN updates[f] ELSE old
ApplyUpdates(row, updates) ==
  [projectId |-> FieldOr(updates, "projectId", row.projectId),
   parentTaskId |-> FieldOr(updates, "parentTaskId", row.parentTaskId),
   percentComplete |-> FieldOr(updates, "percentComplete", row.percentComplete),
   isCompleted |-> FieldOr(updates, "isCompleted", row.isCompleted),
   status |-> FieldOr(updates, "status", row.status),
   sortOrder |-> row.sortOrder]

updateTask(ts, id, updates) ==
  IF id \in DOMAIN ts THEN [ts EXCEPT ![id] = ApplyUpdates(ts[id], updates)] ELSE ts

\* mutant: both columns are written, whether the updates carry them or not
updateProject_AllKeys(ps, id, updates) ==
  IF id \in DOMAIN ps
  THEN [ps EXCEPT ![id].percentComplete = updates.percentComplete,
                  ![id].roadblocks = updates.roadblocks]
  ELSE ps

\* a partial project row: percentComplete and roadblocks when has lists them
updateProject(ps, id, updates) ==
  IF id \in DOMAIN ps
  THEN [ps EXCEPT ![id].percentComplete = FieldOr(updates, "percentComplete", @),
                  ![id].roadblocks = FieldOr(updates, "roadblocks", @)]
  ELSE ps

\* deleteProject: the project's tasks in one statement, then the project;
\* the statement fails when a task of another project hangs under one of them
DeleteProjectOk(ts, id) ==
  \A t \in DOMAIN ts :
     ts[t].projectId # id /\ ts[t].parentTaskId # Null
        => ts[ts[t].parentTaskId].projectId # id
deleteProject(ts, id) == [t \in {x \in DOMAIN ts : ts[x].projectId # id} |-> ts[t]]

\* ------------------------------------------------- task subtree deletion
\* the rows of a query without ORDER BY come in an order the database picks:
\* order is that order, a permutation of the task ids
Orders == {o \in [1..MaxTasks -> TaskIds] : \A i, j \in 1..MaxTasks : o[i] = o[j] => i = j}
ChildRows(ts, id, order) == SelectSeq(order, LAMBDA c : c \in ChildrenOf(ts, id))

\* st = [ts: the table, log: the ids of the DELETE statements issued, in order]
RECURSIVE deleteTask(_, _, _, _)
RECURSIVE DeleteChildTasks(_, _, _, _)
DeleteChildTasks(st, childTasks, order, fuel) ==
  IF childTasks = <<>> THEN st
  ELSE DeleteChildTasks(deleteTask(st, Head(childTasks), order, fuel),
                        Tail(childTasks), order, fuel)
\* mutant: the direct children are deleted without recursing into them
deleteTask_ChildrenOnly(st, id, order, fuel) ==
  LET childTasks == ChildRows(st.ts, id, order)
  IN [ts |-> [t \in (DOMAIN st.ts) \ (ChildrenOf(st.ts, id) \cup {id}) |-> st.ts[t]],
      log |-> st.log \o childTasks \o <<id>>]

deleteTask(st, id, order, fuel) ==
  IF fuel = 0 THEN st
  ELSE LET childTasks == ChildRows(st.ts, id, order)
           after == DeleteChildTasks(st, childTasks, order, fuel - 1)
       IN [ts |-> Without(after.ts, id), log |-> Append(after.log, id)]

\* whether deleteTask(id) returns: it does not when a parent cycle lies below id
RECURSIVE DeleteReturns(_, _, _)
DeleteReturns(ts, id, fuel) ==
  IF fuel = 0 THEN FALSE
  ELSE \A c \in ChildrenOf(ts, id) : DeleteReturns(ts, c, fuel - 1)

\* ------------------------------------------------------------- cascade
\* mutant: only the project is recalculated
Cascade_ProjectOnly(ts, ps, parentTaskId, projectId) ==
  [returns |-> TRUE,
   ts |-> ts,
   ps |-> recalculateProjectCompletion(ts, ps, projectId)]

\* the call discipline of every mutation site: recalcParent on the parent
\* (when there is one), then recalcProject
Cascade(ts, ps, parentTaskId, projectId) ==
  LET returns == parentTaskId = Null \/ CascadeReturns(ts, parentTaskId, Fuel(ts))
      ts2 == IF parentTaskId # Null
             THEN recalculateParentTaskCompletion(ts, parentTaskId, Fuel(ts))
             ELSE ts
  IN [returns |-> returns,
      ts |-> ts2,
      ps |-> IF returns THEN recalculateProjectCompletion(ts2, ps, projectId) ELSE ps]

\* ------------------------------------------------------------ requests
NoUpdates ==
  [has |-> {}, percentComplete |-> 0, isCompleted |-> FALSE, status |-> "pending",
   parentTaskId |-> Null, projectId |-> Null]

\* the JSON bodies of POST and PATCH /api/tasks: any subset of the fields
\* (an absent field holds its default); at most MaxBodyFields of them, not
\* counting the projectId a POST body must carry
TaskBodies ==
  {b \in [has : SUBSET TaskFields, percentComplete : PcInputs, isCompleted : BOOLEAN,
          status : Statuses, parentTaskId : TaskIds \cup {Null},
          projectId : ProjectIds \cup {Null}] :
     /\ \A f \in TaskFields \ b.has : b[f] = NoUpdates[f]
     /\ "projectId" \in b.has => b.projectId # Null}
PostBodies ==
  {b \in TaskBodies : "projectId" \in b.has /\ Cardinality(b.has) <= MaxBodyFields + 1}
PatchBodies ==
  {b \in TaskBodies : b.has # {} /\ Cardinality(b.has) <= MaxBodyFields}

\* column defaults of a task row that a POST body leaves out
DefaultTask ==
  [projectId |-> Null, parentTaskId |-> Null, percentComplete |-> 0,
   isCompleted |-> FALSE, status |-> "pending", sortOrder |-> 0]

\* the project row of a request body that carries a percentComplete
ProjectRow(percentComplete) ==
  [percentComplete |-> percentComplete, status |-> "active", roadblocks |-> "null",
   categoryId |-> "null"]
ProjectUpdates(percentComplete) ==
  [has |-> {"percentComplete"}, percentComplete |-> percentComplete, roadblocks |-> "null"]

\* an AI action: the keys it carries, its values, the status of the task an
\* update_task found, the storage call that rejects while it runs, and
\* whether the history keeps its content (rec)
NoAction ==
  [has |-> {}, projectId |-> Null, parentTaskId |-> Null, percentComplete |-> 0,
   isCompleted |-> FALSE, roadblocks |-> "null", categoryId |-> "undefined",
   found |-> "none", fault |-> "none", rec |-> FALSE]
Recorded(action) == IF action.rec THEN action ELSE NoAction

\* history record of an operation: the id it addressed, the arguments of its
\* cascade, whether it returned normally, the DELETE statements it issued and
\* the project percentage it was given or wrote
Op(op, id, parentTaskId, projectId, ok, log) ==
  [op |-> op, id |-> id, parentTaskId |-> parentTaskId, projectId |-> projectId,
   ok |-> ok, log |-> log, value |-> NoValue, action |-> NoAction]

\* the value of actionResult while no chat request has parsed anything
NoResult == [value |-> "none", actions |-> "empty", message |-> "string", text |-> "none", words |-> 0]

\* no chat request is being answered
NoRequest ==
  /\ aiContent = "none"
  /\ actionResult = NoResult
  /\ frames = <<>>
  /\ res = "none"
  /\ isStreaming = FALSE

\* no PATCH /api/tasks request is being followed store call by store call
NoRace == <<>>

Init ==
  /\ tasks = <<>>
  /\ projects = <<>>
  /\ categories = <<>>
  /\ nextTaskId = 1
  /\ nextProjectId = 1
  /\ chat = "idle"
  /\ executedActions = <<>>
  /\ newlyCreatedProjectId = Null
  /\ batchLen = 0
  /\ hung = FALSE
  /\ nops = 0
  /\ last = Op("init", Null, Null, Null, TRUE, <<>>)
  /\ NoRequest
  /\ race = NoRace
  /\ allTasks = <<>>
  /\ tree = <<>>

\* the response of the chat request and its client
streamVars == <<aiContent, actionResult, frames, res, isStreaming>>
\* what no route and no AI action writes
sideVars == <<categories, race, allTasks, tree>>
chatVars == <<chat, executedActions, newlyCreatedProjectId, batchLen, streamVars, sideVars>>
Ready == ~hung /\ nops < MaxOps
RestReady == Ready /\ chat = "idle"

\* the effect of a mutation followed by its cascade, or the handler hanging in it
Settle(ts1, parentTaskId, projectId, op, id, log) ==
  LET c == Cascade(ts1, projects, parentTaskId, projectId)
  IN /\ tasks' = c.ts
     /\ projects' = c.ps
     /\ hung' = ~c.returns
     /\ last' = Op(op, id, parentTaskId, projectId, c.returns, log)

\* POST /api/projects
PostProject(percentComplete) ==
  /\ RestReady /\ nextProjectId <= MaxProjects
  /\ projects' = createProject(projects, nextProjectId, ProjectRow(percentComplete))
  /\ nextProjectId' = nextProjectId + 1
  /\ nops' = nops + 1
  /\ last' = Op("POST /api/projects", nextProjectId, Null, Null, TRUE, <<>>)
  /\ UNCHANGED <<tasks, nextTaskId, hung, chatVars>>

\* PATCH /api/projects/:id
PatchProject(id, percentComplete) ==
  /\ RestReady
  /\ projects' = updateProject(projects, id, ProjectUpdates(percentComplete))
  /\ nops' = nops + 1
  /\ last' = [Op("PATCH /api/projects", id, Null, Null, id \in DOMAIN projects, <<>>)
                EXCEPT !.value = percentComplete]
  /\ UNCHANGED <<tasks, nextTaskId, nextProjectId, hung, chatVars>>

\* DELETE /api/projects/:id
DeleteProject(id) ==
  /\ RestReady /\ id \in DOMAIN projects
  /\ IF DeleteProjectOk(tasks, id)
     THEN /\ tasks' = deleteProject(tasks, id)
          /\ projects' = Without(projects, id)
     ELSE UNCHANGED <<tasks, projects>>
  /\ nops' = nops + 1
  /\ last' = Op("DELETE /api/projects", id, Null, Null, DeleteProjectOk(tasks, id), <<>>)
  /\ UNCHANGED <<nextTaskId, nextProjectId, hung, chatVars>>

\* POST /api/tasks
PostTask(body) ==
  /\ RestReady /\ nextTaskId <= MaxTasks
  /\ LET row == ApplyUpdates(DefaultTask, body)
     IN IF TaskFkOk(tasks, projects, row)
        THEN /\ Settle(createTask(tasks, nextTaskId, row), row.parentTaskId, row.projectId,
                       "POST /api/tasks", nextTaskId, <<>>)
             /\ nextTaskId' = nextTaskId + 1
        ELSE /\ last' = Op("POST /api/tasks", Null, Null, Null, FALSE, <<>>)
             /\ UNCHANGED <<tasks, projects, nextTaskId, hung>>
  /\ nops' = nops + 1
  /\ UNCHANGED <<nextProjectId, chatVars>>

\* PATCH /api/tasks/:id
PatchTask(id, body) ==
  /\ RestReady
  /\ IF id \in DOMAIN tasks /\ TaskFkOk(tasks, projects, ApplyUpdates(tasks[id], body))
     THEN LET ts1 == updateTask(tasks, id, body)
          IN Settle(ts1, ts1[id].parentTaskId, ts1[id].projectId,
                    "PATCH /api/tasks", id, <<>>)
     ELSE /\ last' = Op("PATCH /api/tasks", id, Null, Null, FALSE, <<>>)
          /\ UNCHANGED <<tasks, projects, hung>>
  /\ nops' = nops + 1
  /\ UNCHANGED <<nextTaskId, nextProjectId, chatVars>>

\* DELETE /api/tasks/:id
DeleteTask(id, order) ==
  /\ RestReady /\ id \in DOMAIN tasks
  /\ IF DeleteReturns(tasks, id, Fuel(tasks))
     THEN LET d == deleteTask([ts |-> tasks, log |-> <<>>], id, order, Fuel(tasks))
          IN Settle(d.ts, tasks[id].parentTaskId, tasks[id].projectId,
                    "DELETE /api/tasks", id, d.log)
     ELSE /\ hung' = TRUE
          /\ last' = Op("DELETE /api/tasks", id, Null, Null, FALSE, <<>>)
          /\ UNCHANGED <<tasks, projects>>
  /\ nops' = nops + 1
  /\ UNCHANGED <<nextTaskId, nextProjectId, chatVars>>


\* ---------------------------------------------- POST /api/ai/chat actions
\* the AI's answer is any batch of at most MaxBatch actions; each action is
\* drawn when the loop reaches it, together with the storage call (if any)
\* that rejects while the action runs
ChatReady == Ready /\ chat = "running" /\ batchLen < MaxBatch /\ actionResult.actions = "array"

\* what the AI call can give back: a JSON object of the expected shape, no
\* content, text that is not JSON, the JSON value null, an object whose
\* actions is a number, an object without actions, an object without a
\* string responseMessage; or the call rejects
AiContents ==
  {"valid", "empty", "notJson", "null", "actionsNotIterable", "noActions", "noMessage", "rejected"}

\* the number of words of the two canned messages
DefaultWords == 5
FallbackWords == 8

\* mutant: the parse has no catch, text that is not JSON is thrown on
ParseContent_NoCatch(content, words) ==
  CASE content = "valid" ->
         [value |-> "object", actions |-> "array", message |-> "string", text |-> "ai", words |-> words]
    [] content = "empty" ->
         [value |-> "object", actions |-> "empty", message |-> "string", text |-> "default",
          words |-> DefaultWords]
    [] content = "notJson" ->
         [value |-> "null", actions |-> "empty", message |-> "missing", text |-> "none", words |-> 0]
    [] content = "null" ->
         [value |-> "null", actions |-> "empty", message |-> "missing", text |-> "none", words |-> 0]
    [] content = "actionsNotIterable" ->
         [value |-> "object", actions |-> "notIterable", message |-> "string", text |-> "ai",
          words |-> words]
    [] content = "noActions" ->
         [value |-> "object", actions |-> "empty", message |-> "string", text |-> "ai", words |-> words]
    [] content = "noMessage" ->
         [value |-> "object", actions |-> "array", message |-> "missing", text |-> "none", words |-> 0]

\* actionResult: JSON.parse of the content, of the default literal when
\* there is no content, or the fallback of the catch; words is the number
\* of pieces responseMessage.split(" ") gives
ParseContent(content, words) ==
  CASE content = "valid" ->
         [value |-> "object", actions |-> "array", message |-> "string", text |-> "ai", words |-> words]
    [] content = "empty" ->
         [value |-> "object", actions |-> "empty", message |-> "string", text |-> "default",
          words |-> DefaultWords]
    [] content = "notJson" ->
         [value |-> "object", actions |-> "empty", message |-> "string", text |-> "fallback",
          words |-> FallbackWords]
    [] content = "null" ->
         [value |-> "null", actions |-> "empty", message |-> "missing", text |-> "none", words |-> 0]
    [] content = "actionsNotIterable" ->
         [value |-> "object", actions |-> "notIterable", message |-> "string", text |-> "ai",
          words |-> words]
    [] content = "noActions" ->
         [value |-> "object", actions |-> "empty", message |-> "string", text |-> "ai", words |-> words]
    [] content = "noMessage" ->
         [value |-> "object", actions |-> "array", message |-> "missing", text |-> "none", words |-> 0]

\* the header of the for loop throws: actions of null, or a value that is
\* not iterable
LoopThrows(r) == r.value = "null" \/ r.actions = "notIterable"

\* the request up to the for loop: the AI call and the parse of its
\* content; what is thrown here reaches the outer catch before any header
\* is sent
ChatBegin(content, words) ==
  /\ RestReady
  /\ LET r == IF content = "rejected" THEN NoResult ELSE ParseContent(content, words)
         fails == content = "rejected" \/ LoopThrows(r)
     IN /\ aiContent' = content
        /\ actionResult' = r
        /\ chat' = IF fails THEN "ended" ELSE "running"
        /\ res' = IF fails THEN "json500" ELSE "open"
  /\ frames' = <<>>
  /\ isStreaming' = TRUE
  /\ last' = Op("POST /api/ai/chat", Null, Null, Null, TRUE, <<>>)
  /\ UNCHANGED <<tasks, projects, nextTaskId, nextProjectId, hung, nops,
                 executedActions, newlyCreatedProjectId, batchLen, sideVars>>

\* mutant: an action that throws ends the request instead of the iteration
ContinueLoop_Rethrow(ok) ==
  /\ chat' = IF ok THEN chat ELSE "idle"
  /\ batchLen' = batchLen + 1

\* the end of an iteration: the catch block logs what the action threw and
\* the for loop goes on with the next action
ContinueLoop(ok) ==
  /\ chat' = chat
  /\ batchLen' = batchLen + 1

\* an action that ends without a write: thrown before or by its store
\* operation, a missing id, or the continue of create_task
SkipAction(op, id, action) ==
  /\ last' = [Op(op, id, Null, Null, FALSE, <<>>) EXCEPT !.action = Recorded(action)]
  /\ ContinueLoop(FALSE)
  /\ UNCHANGED <<tasks, projects, nextTaskId, nextProjectId, hung, executedActions,
                 newlyCreatedProjectId>>

\* the cascade after the store operation of create_task and update_task, and
\* the push to executedActions that follows it when nothing threw
ActionSettle(ts1, parentTaskId, projectId, op, id, action) ==
  LET c == Cascade(ts1, projects, parentTaskId, projectId)
      ok == c.returns /\ action.fault = "none"
  IN /\ tasks' = IF action.fault = "recalcParent" THEN ts1 ELSE c.ts
     /\ projects' = IF action.fault = "none" THEN c.ps ELSE projects
     /\ hung' = (action.fault # "recalcParent" /\ ~c.returns)
     /\ last' = [Op(op, id, parentTaskId, projectId, ok, <<>>) EXCEPT !.action = Recorded(action)]
     /\ executedActions' = IF ok THEN Append(executedActions, op) ELSE executedActions
     /\ ContinueLoop(ok)

\* categories[0]?.id || null
FirstCategoryId(cats) == IF cats = <<>> THEN "null" ELSE cats[1].id

\* categories.find(...)?.id over the indices that satisfy the predicate
FindId(cats, matching) ==
  IF matching = {} THEN "undefined"
  ELSE cats[CHOOSE i \in matching : \A j \in matching : i <= j].id

\* mutant: the category names are compared as they are written
ResolveCategoryId_CaseSensitive(categoryId, cats) ==
  LET resolved == IF categoryId # "undefined" THEN categoryId ELSE FirstCategoryId(cats)
      byId == {i \in 1..Len(cats) : cats[i].id = resolved}
      byName == {i \in 1..Len(cats) : cats[i].name = resolved}
  IN IF resolved # "null" /\ byId = {}
     THEN IF byName # {} THEN FindId(cats, byName) ELSE FirstCategoryId(cats)
     ELSE resolved

\* the category of a create_project action
ResolveCategoryId(categoryId, cats) ==
  LET resolved == IF categoryId # "undefined" THEN categoryId ELSE FirstCategoryId(cats)
      byId == {i \in 1..Len(cats) : cats[i].id = resolved}
      byName == {i \in 1..Len(cats) : toLowerCase(cats[i].name) = toLowerCase(resolved)}
  IN IF resolved # "null" /\ byId = {}
     THEN IF byName # {} THEN FindId(cats, byName) ELSE FirstCategoryId(cats)
     ELSE resolved

\* the row create_project inserts
NewProjectRow(categoryId) ==
  [percentComplete |-> 0, status |-> "active", roadblocks |-> "null",
   categoryId |-> categoryId]

\* mutant: the slot keeps the first project of the batch
NextNewlyCreated_KeepFirst(newlyCreated, projectId) ==
  IF newlyCreated # Null THEN newlyCreated ELSE projectId

\* newlyCreatedProjectId = project.id
NextNewlyCreated(newlyCreated, projectId) == projectId

\* action.type === "create_project"
ActCreateProject(categoryId, fault, rec) ==
  /\ ChatReady /\ nextProjectId <= MaxProjects
  /\ fault \in {"none", "store"}
  /\ LET action == [NoAction EXCEPT !.categoryId = categoryId, !.fault = fault, !.rec = rec,
                      !.has = IF categoryId = "undefined" THEN {} ELSE {"categoryId"}]
     IN IF fault = "store"
        THEN SkipAction("create_project", Null, action)
        ELSE /\ projects' = createProject(projects, nextProjectId,
                                          NewProjectRow(ResolveCategoryId(categoryId, categories)))
             /\ newlyCreatedProjectId' = NextNewlyCreated(newlyCreatedProjectId, nextProjectId)
             /\ nextProjectId' = nextProjectId + 1
             /\ executedActions' = Append(executedActions, "create_project")
             /\ last' = [Op("create_project", nextProjectId, Null, Null, TRUE, <<>>)
                           EXCEPT !.action = Recorded(action)]
             /\ ContinueLoop(TRUE)
             /\ UNCHANGED <<tasks, nextTaskId, hung>>
  /\ nops' = nops + 1
  /\ UNCHANGED <<streamVars, sideVars>>

\* mutant: without a project of this batch the placeholder names the newest
\* project of the store
ResolveProjectId_NewestInStore(projectId, newlyCreated) ==
  IF projectId # NEW_PROJECT THEN projectId
  ELSE IF newlyCreated # Null THEN newlyCreated
  ELSE IF nextProjectId - 1 \in DOMAIN projects THEN nextProjectId - 1
  ELSE projectId

\* the placeholder resolution of a create_task action
ResolveProjectId(projectId, newlyCreated) ==
  IF projectId = NEW_PROJECT /\ newlyCreated # Null THEN newlyCreated ELSE projectId

\* mutant: a new task starts in progress
NewTaskRow_InProgress(projectId, parentTaskId) ==
  [projectId |-> projectId, parentTaskId |-> parentTaskId, percentComplete |-> 0,
   isCompleted |-> FALSE, status |-> "in-progress", sortOrder |-> 0]

\* the row create_task inserts
NewTaskRow(projectId, parentTaskId) ==
  [projectId |-> projectId, parentTaskId |-> parentTaskId, percentComplete |-> 0,
   isCompleted |-> FALSE, status |-> "pending", sortOrder |-> 0]

\* action.type === "create_task"
ActCreateTask(actionProjectId, actionParentTaskId, fault, rec) ==
  /\ ChatReady /\ nextTaskId <= MaxTasks
  /\ LET projectId == ResolveProjectId(actionProjectId, newlyCreatedProjectId)
         row == NewTaskRow(projectId, actionParentTaskId)
         action == [NoAction EXCEPT !.projectId = actionProjectId,
                                    !.parentTaskId = actionParentTaskId, !.fault = fault, !.rec = rec,
                                    !.has = IF actionProjectId = Null THEN {} ELSE {"projectId"}]
         rejected == projectId = Null \/ projectId = NEW_PROJECT
                     \/ ~TaskFkOk(tasks, projects, row)
     IN /\ rejected => fault = "none"
        /\ fault = "recalcParent" => actionParentTaskId # Null
        /\ IF rejected \/ fault = "store"
           THEN SkipAction("create_task", Null, action)
           ELSE /\ ActionSettle(createTask(tasks, nextTaskId, row), row.parentTaskId,
                                row.projectId, "create_task", nextTaskId, action)
                /\ nextTaskId' = nextTaskId + 1
                /\ UNCHANGED <<nextProjectId, newlyCreatedProjectId>>
  /\ nops' = nops + 1
  /\ UNCHANGED <<streamVars, sideVars>>

\* an update_task action: has lists the keys the action carries
UpdateTaskActions ==
  {a \in [has : SUBSET {"percentComplete", "isCompleted", "roadblocks"},
          percentComplete : PcInputs, isCompleted : BOOLEAN] :
     /\ a.has # {}
     /\ "percentComplete" \notin a.has => a.percentComplete = 0
     /\ "isCompleted" \notin a.has => a.isCompleted = FALSE}

\* mutant: the status is not derived from the percentage
UpdateTaskUpdates_KeepStatus(action, existingTask) ==
  LET hasPc == "percentComplete" \in action.has
      pc1 == action.percentComplete
  IN [has |-> IF hasPc THEN {"percentComplete", "isCompleted"} ELSE {},
      percentComplete |-> pc1,
      isCompleted |-> pc1 = 100,
      status |-> "pending",
      parentTaskId |-> Null,
      projectId |-> Null]

\* mutant: a percentage of 0 leaves the status the task has, as the
\* aggregator does
UpdateTaskUpdates_PreserveStatus(action, existingTask) ==
  LET hasPc == "percentComplete" \in action.has
      pc1 == action.percentComplete
  IN [has |-> IF hasPc THEN {"percentComplete", "isCompleted", "status"} ELSE {},
      percentComplete |-> pc1,
      isCompleted |-> pc1 = 100,
      status |-> IF pc1 = 100 THEN "completed"
                 ELSE IF pc1 > 0 THEN "in-progress" ELSE existingTask.status,
      parentTaskId |-> Null,
      projectId |-> Null]

\* the updates object an update_task action builds
UpdateTaskUpdates(action, existingTask) ==
  LET hasPc == "percentComplete" \in action.has
      hasIc == "isCompleted" \in action.has
      pc1 == action.percentComplete
      \* updates.percentComplete || existingTask.percentComplete
      pcOr == IF hasPc /\ pc1 # 0 THEN pc1 ELSE existingTask.percentComplete
  IN [has |-> (IF hasPc THEN {"percentComplete", "isCompleted", "status"} ELSE {})
                \cup (IF hasIc THEN {"isCompleted", "percentComplete"} ELSE {}),
      percentComplete |-> IF hasIc THEN (IF action.isCompleted THEN 100 ELSE pcOr)
                          ELSE IF hasPc THEN pc1 ELSE 0,
      isCompleted |-> IF hasIc THEN action.isCompleted
                      ELSE IF hasPc THEN pc1 = 100 ELSE FALSE,
      status |-> IF hasPc
                 THEN (IF pc1 = 100 THEN "completed"
                       ELSE IF pc1 > 0 THEN "in-progress" ELSE "pending")
                 ELSE "pending",
      parentTaskId |-> Null,
      projectId |-> Null]

\* action.type === "update_task"
ActUpdateTask(taskId, a, fault, rec) ==
  /\ ChatReady
  /\ LET action == [NoAction EXCEPT !.has = a.has, !.percentComplete = a.percentComplete,
                                    !.isCompleted = a.isCompleted, !.fault = fault, !.rec = rec,
                                    !.found = IF taskId \in DOMAIN tasks
                                              THEN tasks[taskId].status ELSE "none"]
     IN IF taskId \in DOMAIN tasks
        THEN /\ fault = "recalcParent" => tasks[taskId].parentTaskId # Null
             /\ IF fault = "store"
                THEN SkipAction("update_task", taskId, action)
                ELSE LET ts1 == updateTask(tasks, taskId, UpdateTaskUpdates(a, tasks[taskId]))
                     IN /\ ActionSettle(ts1, ts1[taskId].parentTaskId, ts1[taskId].projectId,
                                        "update_task", taskId, action)
                        /\ UNCHANGED <<nextTaskId, nextProjectId, newlyCreatedProjectId>>
        ELSE /\ fault = "none"
             /\ SkipAction("update_task", taskId, action)
  /\ nops' = nops + 1
  /\ UNCHANGED <<streamVars, sideVars>>

\* an update_project action: has lists the keys the action carries
UpdateProjectActions ==
  {a \in [has : SUBSET {"percentComplete", "roadblocks"},
          percentComplete : PcInputs, roadblocks : Roadblocks] :
     /\ "percentComplete" \notin a.has => a.percentComplete = 0
     /\ "roadblocks" \notin a.has => a.roadblocks = "null"}

\* action.type === "update_project"; an action that carries neither key hands
\* updateProject an empty SET, which the query builder may reject (fault = "store")
ActUpdateProject(projectId, a, fault, rec) ==
  /\ ChatReady
  /\ fault \in {"none", "store"}
  /\ LET action == [NoAction EXCEPT !.has = a.has, !.percentComplete = a.percentComplete,
                                    !.roadblocks = a.roadblocks, !.fault = fault, !.rec = rec]
         value == IF "percentComplete" \in a.has THEN a.percentComplete ELSE NoValue
     IN IF projectId \in DOMAIN projects /\ fault = "none"
        THEN /\ projects' = updateProject(projects, projectId, a)
             /\ executedActions' = Append(executedActions, "update_project")
             /\ last' = [Op("update_project", projectId, Null, Null, TRUE, <<>>)
                           EXCEPT !.value = value, !.action = Recorded(action)]
             /\ ContinueLoop(TRUE)
             /\ UNCHANGED <<tasks, nextTaskId, nextProjectId, hung, newlyCreatedProjectId>>
        ELSE /\ projectId \notin DOMAIN projects => fault = "none"
             /\ SkipAction("update_project", projectId, action)
  /\ nops' = nops + 1
  /\ UNCHANGED <<streamVars, sideVars>>

\* the loop is over: the response is streamed and the request ends (its
\* locals executedActions and newlyCreatedProjectId end with it)
ChatEnd ==
  /\ ~hung /\ chat = "running"
  /\ chat' = "idle"
  /\ executedActions' = <<>>
  /\ newlyCreatedProjectId' = Null
  /\ batchLen' = 0
  /\ last' = Op("chat done", Null, Null, Null, TRUE, <<>>)
  /\ aiContent' = "none"
  /\ actionResult' = NoResult
  /\ frames' = <<>>
  /\ res' = "none"
  /\ isStreaming' = FALSE
  /\ UNCHANGED <<tasks, projects, nextTaskId, nextProjectId, hung, nops, sideVars>>

\* ------------------------------------ POST /api/ai/chat, frame by frame
MaxWords == 2
WordCounts == 1..MaxWords

WordFrames(fs) == Cardinality({i \in DOMAIN fs : fs[i] = "word"})

\* the for loop is over: the headers are set, the summary of the executed
\* actions is written and responseMessage is split; a responseMessage that
\* is no string throws there, into the outer catch
LoopEnd ==
  /\ ~hung /\ chat = "running"
  /\ LET summary == IF executedActions # <<>> THEN <<"action">> ELSE <<>>
     IN IF actionResult.message = "missing"
        THEN /\ frames' = IF summary # <<>> THEN Append(summary, "error") ELSE summary
             /\ res' = IF summary # <<>> THEN "ended" ELSE "json500"
             /\ chat' = "ended"
        ELSE /\ frames' = summary
             /\ res' = "stream"
             /\ chat' = "streaming"
  /\ UNCHANGED <<tasks, projects, nextTaskId, nextProjectId, hung, nops, last, executedActions,
                 newlyCreatedProjectId, batchLen, aiContent, actionResult, isStreaming, sideVars>>

\* one word of the response message is written, then the handler waits 20 ms
StreamWord ==
  /\ ~hung /\ chat = "streaming"
  /\ WordFrames(frames) < actionResult.words
  /\ frames' = Append(frames, "word")
  /\ UNCHANGED <<tasks, projects, nextTaskId, nextProjectId, hung, nops, last, chat, executedActions,
                 newlyCreatedProjectId, batchLen, aiContent, actionResult, res, isStreaming, sideVars>>

\* the assistant message is stored (when the request names a conversation),
\* the done frame is written and the response ends; a createMessage that
\* rejects ends it with the error frame of the outer catch
StreamFinish(fault) ==
  /\ ~hung /\ chat = "streaming"
  /\ WordFrames(frames) = actionResult.words
  /\ frames' = Append(frames, IF fault = "store" THEN "error" ELSE "done")
  /\ res' = "ended"
  /\ chat' = "ended"
  /\ last' = Op("chat done", Null, Null, Null, fault = "none", <<>>)
  /\ UNCHANGED <<tasks, projects, nextTaskId, nextProjectId, hung, nops, executedActions,
                 newlyCreatedProjectId, batchLen, aiContent, actionResult, isStreaming, sideVars>>

\* sendMessage of the client: an error status throws, the end of the stream
\* breaks the read loop, and finally resets isStreaming
ClientDone ==
  /\ chat = "ended" /\ isStreaming
  /\ isStreaming' = FALSE
  /\ chat' = "idle"
  /\ executedActions' = <<>>
  /\ newlyCreatedProjectId' = Null
  /\ batchLen' = 0
  /\ UNCHANGED <<tasks, projects, nextTaskId, nextProjectId, hung, nops, last,
                 aiContent, actionResult, frames, res, sideVars>>

\* a handler that never returns keeps its request open; the server goes on
\* serving the next one
HandlerAbandoned ==
  /\ hung /\ chat = "idle"
  /\ hung' = FALSE
  /\ UNCHANGED <<tasks, projects, nextTaskId, nextProjectId, nops, last, chatVars>>

\* ------------------------------------------------------- specification
Next ==
  \/ \E pc \in PcInputs : PostProject(pc)
  \/ \E p \in ProjectIds, pc \in PcInputs : PatchProject(p, pc)
  \/ \E p \in ProjectIds : DeleteProject(p)
  \/ \E b \in PostBodies : PostTask(b)
  \/ \E t \in TaskIds, b \in PatchBodies : PatchTask(t, b)
  \/ \E t \in TaskIds, o \in Orders : DeleteTask(t, o)
  \/ ChatBegin("valid", 1)
  \/ ActCreateProject("undefined", "none", FALSE)
  \/ \E p \in ProjectIds \cup {NEW_PROJECT, Null}, t \in TaskIds \cup {Null} :
        ActCreateTask(p, t, "none", FALSE)
  \/ \E t \in TaskIds, a \in UpdateTaskActions : ActUpdateTask(t, a, "none", FALSE)
  \/ \E p \in ProjectIds, a \in UpdateProjectActions :
        "roadblocks" \notin a.has /\ ActUpdateProject(p, a, "none", FALSE)
  \/ ChatEnd

Spec == Init /\ [][Next]_vars

\* ------------------------------- create_project over every category list
InitCategory ==
  /\ categories \in CategoryLists
  /\ tasks = <<>>
  /\ projects = <<>>
  /\ nextTaskId = 1
  /\ nextProjectId = 1
  /\ chat = "idle"
  /\ executedActions = <<>>
  /\ newlyCreatedProjectId = Null
  /\ batchLen = 0
  /\ hung = FALSE
  /\ nops = 0
  /\ last = Op("init", Null, Null, Null, TRUE, <<>>)
  /\ NoRequest
  /\ race = NoRace
  /\ allTasks = <<>>
  /\ tree = <<>>

NextCategory ==
  \/ ChatBegin("valid", 1)
  \/ \E c \in CategoryInputs, f \in Faults : ActCreateProject(c, f, TRUE)
  \/ ChatEnd

SpecCategory == InitCategory /\ [][NextCategory]_vars

\* ------------------- the action interpreter, action by action, with faults
\* the store a batch finds is built by POST /api/projects and POST /api/tasks
SeedBodies ==
  {b \in PostBodies : /\ b.has \subseteq {"projectId", "parentTaskId", "status"}
                      /\ b.status \in {"pending", "blocked"}}

\* the actions a batch is drawn from
ChatTaskActions ==
  {a \in UpdateTaskActions : /\ a.percentComplete \in {0, 50, 100}
                             /\ "roadblocks" \in a.has => a.has = {"roadblocks"}}
ChatProjectActions == {a \in UpdateProjectActions : a.percentComplete \in {0, 50}}

NextChat ==
  \/ PostProject(0)
  \/ \E b \in SeedBodies : PostTask(b)
  \/ ChatBegin("valid", 1)
  \/ \E f \in Faults : ActCreateProject("undefined", f, TRUE)
  \/ \E p \in ProjectIds \cup {NEW_PROJECT, Null}, t \in TaskIds \cup {Null}, f \in Faults :
        ActCreateTask(p, t, f, TRUE)
  \/ \E t \in TaskIds, a \in ChatTaskActions, f \in Faults : ActUpdateTask(t, a, f, TRUE)
  \/ \E p \in ProjectIds, a \in ChatProjectActions, f \in Faults :
        ActUpdateProject(p, a, f, TRUE)
  \/ ChatEnd

SpecChat == Init /\ [][NextChat]_vars


\* --------------------------- the chat response, frame by frame, and its client
\* the store the requests find: tasks of one project, re-parented by PATCH
StreamBodies == {b \in PostBodies : b.has \subseteq {"projectId", "parentTaskId"}}
StreamPatches == {b \in PatchBodies : b.has = {"parentTaskId"}}
StreamTaskActions == {a \in UpdateTaskActions : a.has = {"percentComplete"} /\ a.percentComplete = 100}

NextStream ==
  \/ PostProject(0)
  \/ \E b \in StreamBodies : PostTask(b)
  \/ \E t \in TaskIds, b \in StreamPatches : PatchTask(t, b)
  \/ HandlerAbandoned
  \/ \E c \in AiContents, w \in WordCounts : ChatBegin(c, w)
  \/ ActCreateProject("undefined", "none", FALSE)
  \/ \E p \in ProjectIds : ActCreateTask(p, Null, "none", FALSE)
  \/ \E t \in TaskIds, a \in StreamTaskActions, f \in {"none", "store"} :
        ActUpdateTask(t, a, f, FALSE)
  \/ LoopEnd
  \/ StreamWord
  \/ \E f \in {"none", "store"} : StreamFinish(f)
  \/ ClientDone

SpecStream == Init /\ [][NextStream]_vars

\* the event loop runs every handler and every client that can take a step
SpecStreamFair ==
  /\ SpecStream
  /\ WF_vars(LoopEnd)
  /\ WF_vars(StreamWord)
  /\ WF_vars(\E f \in {"none", "store"} : StreamFinish(f))
  /\ WF_vars(ClientDone)


\* ------------------------- the interpreter over any number the AI writes
\* the percent_complete columns are integer columns: they store every integer
PercentColumnOk(v) == v \in Int

\* percentComplete values of an action: nothing between the parse and the
\* store looks at them
AiPercents == {-5, 0, 100, 150}
WideTaskActions ==
  {a \in [has : {{"percentComplete"}}, percentComplete : AiPercents, isCompleted : {FALSE}] :
     PercentColumnOk(a.percentComplete)}
WideProjectActions ==
  {a \in [has : {{"percentComplete"}}, percentComplete : AiPercents, roadblocks : {"null"}] :
     PercentColumnOk(a.percentComplete)}

NextRange ==
  \/ PostProject(0)
  \/ \E b \in StreamBodies : PostTask(b)
  \/ ChatBegin("valid", 1)
  \/ \E t \in TaskIds, a \in WideTaskActions : ActUpdateTask(t, a, "none", FALSE)
  \/ \E p \in ProjectIds, a \in WideProjectActions : ActUpdateProject(p, a, "none", FALSE)
  \/ ChatEnd

SpecRange == Init /\ [][NextRange]_vars


\* ------------------------------- tasks that gain and lose their children
\* POST /api/tasks bodies that carry a parent, a percentage or both
ChildBodies ==
  {b \in TaskBodies : "projectId" \in b.has
                      /\ b.has \subseteq {"projectId", "parentTaskId", "percentComplete"}}

NextChild ==
  \/ PostProject(0)
  \/ \E b \in ChildBodies : PostTask(b)
  \/ \E t \in TaskIds, o \in Orders : DeleteTask(t, o)
  \/ ChatBegin("valid", 1)
  \/ \E p \in ProjectIds, t \in TaskIds \cup {Null} : ActCreateTask(p, t, "none", FALSE)
  \/ ChatEnd

SpecChild == Init /\ [][NextChild]_vars


\* ------------------- two PATCH /api/tasks requests, store call by store call
\* the handler awaits every query: between two of them the other request runs
Requests == {1, 2}
RacePercents == {50, 100}

\* the locals of a request: where it stands, the task it updates and the
\* percentComplete of its body, the task recalcParent is working on, the
\* parentTask row and the average it read, and the project of the task
IdleRequest ==
  [pc |-> "idle", id |-> Null, value |-> 0, target |-> Null, parentTask |-> DefaultTask,
   avg |-> 0, projectId |-> Null]

InFlight(r) == race.reqs[r].pc \notin {"idle", "done"}

\* a request moves on; a request that is done keeps only the id of its task
Goto(r, pc, changes) ==
  race' = [race EXCEPT !.reqs[r] =
             IF pc = "done" THEN [IdleRequest EXCEPT !.pc = "done", !.id = race.reqs[r].id]
             ELSE [f \in DOMAIN IdleRequest |->
                     IF f = "pc" THEN pc
                     ELSE IF f \in DOMAIN changes THEN changes[f] ELSE race.reqs[r][f]]]

\* mutant: the route goes on to recalcProject without recalcParent
AfterUpdate_ProjectOnly(task) == "readRoots"

\* if (task.parentTaskId) recalculateParentTaskCompletion, then
\* recalculateProjectCompletion
AfterUpdate(task) == IF task.parentTaskId # Null THEN "readParent" ELSE "readRoots"

\* the request arrives and getTask finds the task (a task without children)
RaceGetTask(r, id, value) ==
  /\ race.reqs[r].pc = "idle"
  /\ id \in DOMAIN tasks /\ ChildrenOf(tasks, id) = {}
  /\ race' = [race EXCEPT !.reqs[r] = [IdleRequest EXCEPT !.pc = "update", !.id = id,
                                                         !.value = value],
                          !.overlapped = race.overlapped \/ \E o \in Requests : InFlight(o)]
  /\ UNCHANGED <<tasks, projects>>

\* storage.updateTask(req.params.id, req.body)
RaceUpdateTask(r) ==
  /\ race.reqs[r].pc = "update"
  /\ LET req == race.reqs[r]
         body == [NoUpdates EXCEPT !.has = {"percentComplete"}, !.percentComplete = req.value]
         ts1 == updateTask(tasks, req.id, body)
         task == ts1[req.id]
     IN /\ tasks' = ts1
        /\ Goto(r, AfterUpdate(task),
                [target |-> task.parentTaskId, projectId |-> task.projectId])
  /\ UNCHANGED projects

\* recalcParent: the select of the parent row
RaceReadParent(r) ==
  /\ race.reqs[r].pc = "readParent"
  /\ LET target == race.reqs[r].target
     IN IF target \notin DOMAIN tasks
        THEN Goto(r, "readRoots", <<>>)
        ELSE Goto(r, "readChildren", [parentTask |-> tasks[target]])
  /\ UNCHANGED <<tasks, projects>>

\* recalcParent: the select of the children and their average
RaceReadChildren(r) ==
  /\ race.reqs[r].pc = "readChildren"
  /\ LET children == ChildrenOf(tasks, race.reqs[r].target)
     IN IF children = {}
        THEN Goto(r, "readRoots", <<>>)
        ELSE Goto(r, "writeParent",
                  [avg |-> MathRoundDiv(SumPercent(tasks, children), Cardinality(children))])
  /\ UNCHANGED <<tasks, projects>>

\* recalcParent: the update of the parent row, then the recursion
RaceWriteParent(r) ==
  /\ race.reqs[r].pc = "writeParent"
  /\ LET req == race.reqs[r]
         row == AggregatedTask(req.parentTask, req.avg)
     IN /\ tasks' = IF req.target \in DOMAIN tasks
                    THEN [tasks EXCEPT ![req.target].percentComplete = row.percentComplete,
                                       ![req.target].isCompleted = row.isCompleted,
                                       ![req.target].status = row.status]
                    ELSE tasks
        /\ IF req.parentTask.parentTaskId # Null
           THEN Goto(r, "readParent", [target |-> req.parentTask.parentTaskId])
           ELSE Goto(r, "readRoots", <<>>)
  /\ UNCHANGED projects

\* recalcProject: the select of the tasks of the project
RaceReadRoots(r) ==
  /\ race.reqs[r].pc = "readRoots"
  /\ Goto(r, "writeProject",
          [avg |-> ProjectCompletionWrite(tasks, projects, race.reqs[r].projectId)])
  /\ UNCHANGED <<tasks, projects>>

\* recalcProject: the update of the project row, then res.json(task)
RaceWriteProject(r) ==
  /\ race.reqs[r].pc = "writeProject"
  /\ LET req == race.reqs[r]
     IN projects' = IF req.projectId \in DOMAIN projects
                    THEN [projects EXCEPT ![req.projectId].percentComplete = req.avg]
                    ELSE projects
  /\ Goto(r, "done", <<>>)
  /\ UNCHANGED tasks

RaceStep(r) ==
  /\ \/ \E t \in TaskIds, v \in RacePercents : RaceGetTask(r, t, v)
     \/ RaceUpdateTask(r)
     \/ RaceReadParent(r)
     \/ RaceReadChildren(r)
     \/ RaceWriteParent(r)
     \/ RaceReadRoots(r)
     \/ RaceWriteProject(r)
  /\ UNCHANGED <<nextTaskId, nextProjectId, hung, nops, last, chat, executedActions,
                 newlyCreatedProjectId, batchLen, streamVars, categories, allTasks, tree>>

\* the task tree the requests find: the tasks of one project, created by
\* POST requests before they arrive
RaceSeed ==
  /\ \A r \in Requests : race.reqs[r].pc = "idle"
  /\ \/ projects = <<>> /\ PostProject(0)
     \/ \E b \in StreamBodies : PostTask(b)

InitRace ==
  /\ race = [reqs |-> [r \in Requests |-> IdleRequest], overlapped |-> FALSE]
  /\ tasks = <<>>
  /\ projects = <<>>
  /\ categories = <<>>
  /\ nextTaskId = 1
  /\ nextProjectId = 1
  /\ chat = "idle"
  /\ executedActions = <<>>
  /\ newlyCreatedProjectId = Null
  /\ batchLen = 0
  /\ hung = FALSE
  /\ nops = 0
  /\ last = Op("init", Null, Null, Null, TRUE, <<>>)
  /\ NoRequest
  /\ allTasks = <<>>
  /\ tree = <<>>

NextRace ==
  \/ RaceSeed
  \/ \E r \in Requests : RaceStep(r)

SpecRace == InitRace /\ [][NextRace]_vars


\* ------------------------------------------------------- buildTaskTree
MaxList == 3
SortOrders == {0, 1}
\* a parentTaskId that is the id of no task of the list
OutsideId == MaxList + 1

\* the rows getProjectWithTasks and getAllProjectsWithTasks hand to
\* buildTaskTree: distinct ids (the i-th row has id i), any parent link, in
\* the order of the query (ascending sortOrder, ties in any order)
TaskLists ==
  UNION {{l \in [1..n -> [id : 1..n, parentTaskId : (1..n) \cup {Null, OutsideId},
                          sortOrder : SortOrders]] :
            /\ \A i \in 1..n : l[i].id = i
            /\ \A i, j \in 1..n : i < j => l[i].sortOrder <= l[j].sortOrder}
         : n \in 0..MaxList}

\* mutant: a row goes before the rows of equal sortOrder
SortedInsert_BeforeTies(sorted, x) ==
  LET k == Cardinality({i \in DOMAIN sorted : sorted[i].sortOrder < x.sortOrder})
  IN SubSeq(sorted, 1, k) \o <<x>> \o SubSeq(sorted, k + 1, Len(sorted))

\* Array.prototype.sort with (a, b) => a.sortOrder - b.sortOrder is stable:
\* a row goes after the rows whose sortOrder is not greater
SortedInsert(sorted, x) ==
  LET k == Cardinality({i \in DOMAIN sorted : sorted[i].sortOrder <= x.sortOrder})
  IN SubSeq(sorted, 1, k) \o <<x>> \o SubSeq(sorted, k + 1, Len(sorted))

RECURSIVE SortBySortOrder(_)
SortBySortOrder(rows) ==
  IF rows = <<>> THEN <<>>
  ELSE SortedInsert(SortBySortOrder(SubSeq(rows, 1, Len(rows) - 1)), rows[Len(rows)])

RECURSIVE buildTaskTree(_, _)
buildTaskTree(all, parentId) ==
  LET filtered == SelectSeq(all, LAMBDA t : t.parentTaskId = parentId)
      sorted == SortBySortOrder(filtered)
  IN [i \in 1..Len(sorted) |->
        [id |-> sorted[i].id, parentTaskId |-> sorted[i].parentTaskId,
         sortOrder |-> sorted[i].sortOrder,
         children |-> buildTaskTree(all, sorted[i].id)]]

\* the call buildTaskTree(projectTasks, null); filter copies the list, so
\* the sort works on the copy
BuildTaskTree ==
  /\ last.op = "init"
  /\ tree' = buildTaskTree(allTasks, Null)
  /\ allTasks' = allTasks
  /\ last' = Op("buildTaskTree", Null, Null, Null, TRUE, <<>>)
  /\ UNCHANGED <<tasks, projects, nextTaskId, nextProjectId, hung, nops, chat, executedActions,
                 newlyCreatedProjectId, batchLen, streamVars, categories, race>>

InitTree ==
  /\ allTasks \in TaskLists
  /\ tree = <<>>
  /\ tasks = <<>>
  /\ projects = <<>>
  /\ categories = <<>>
  /\ nextTaskId = 1
  /\ nextProjectId = 1
  /\ chat = "idle"
  /\ executedActions = <<>>
  /\ newlyCreatedProjectId = Null
  /\ batchLen = 0
  /\ hung = FALSE
  /\ nops = 0
  /\ last = Op("init", Null, Null, Null, TRUE, <<>>)
  /\ NoRequest
  /\ race = NoRace

NextTree == BuildTaskTree

SpecTree == InitTree /\ [][NextTree]_vars


\* ------------------------------------------- the storage methods, directly
\* rows handed to storage.createTask: a project, a parent and a percentage
InsertTasks ==
  {b \in TaskBodies : "projectId" \in b.has
                      /\ b.has \subseteq {"projectId", "parentTaskId", "percentComplete"}}

StCreateProject(percentComplete) ==
  /\ Ready /\ nextProjectId <= MaxProjects
  /\ projects' = createProject(projects, nextProjectId, ProjectRow(percentComplete))
  /\ nextProjectId' = nextProjectId + 1
  /\ nops' = nops + 1
  /\ last' = Op("createProject", nextProjectId, Null, Null, TRUE, <<>>)
  /\ UNCHANGED <<tasks, nextTaskId, hung, chatVars>>

StUpdateProject(id, percentComplete) ==
  /\ Ready
  /\ projects' = updateProject(projects, id, ProjectUpdates(percentComplete))
  /\ nops' = nops + 1
  /\ last' = [Op("updateProject", id, Null, Null, TRUE, <<>>) EXCEPT !.value = percentComplete]
  /\ UNCHANGED <<tasks, nextTaskId, nextProjectId, hung, chatVars>>

StCreateTask(insertTask) ==
  /\ Ready /\ nextTaskId <= MaxTasks
  /\ LET row == ApplyUpdates(DefaultTask, insertTask)
     IN IF TaskFkOk(tasks, projects, row)
        THEN /\ tasks' = createTask(tasks, nextTaskId, row)
             /\ nextTaskId' = nextTaskId + 1
             /\ last' = Op("createTask", nextTaskId, Null, Null, TRUE, <<>>)
        ELSE /\ last' = Op("createTask", Null, Null, Null, FALSE, <<>>)
             /\ UNCHANGED <<tasks, nextTaskId>>
  /\ nops' = nops + 1
  /\ UNCHANGED <<projects, nextProjectId, hung, chatVars>>

StUpdateTask(id, updates) ==
  /\ Ready
  /\ IF id \in DOMAIN tasks /\ ~TaskFkOk(tasks, projects, ApplyUpdates(tasks[id], updates))
     THEN /\ last' = Op("updateTask", id, Null, Null, FALSE, <<>>)
          /\ UNCHANGED tasks
     ELSE /\ tasks' = updateTask(tasks, id, updates)
          /\ last' = Op("updateTask", id, Null, Null, TRUE, <<>>)
  /\ nops' = nops + 1
  /\ UNCHANGED <<projects, nextTaskId, nextProjectId, hung, chatVars>>

StDeleteTask(id, order) ==
  /\ Ready
  /\ IF DeleteReturns(tasks, id, Fuel(tasks))
     THEN LET d == deleteTask([ts |-> tasks, log |-> <<>>], id, order, Fuel(tasks))
          IN /\ tasks' = d.ts
             /\ last' = Op("deleteTask", id, Null, Null, TRUE, d.log)
             /\ UNCHANGED hung
     ELSE /\ hung' = TRUE
          /\ last' = Op("deleteTask", id, Null, Null, FALSE, <<>>)
          /\ UNCHANGED tasks
  /\ nops' = nops + 1
  /\ UNCHANGED <<projects, nextTaskId, nextProjectId, chatVars>>

StRecalcProject(projectId) ==
  /\ Ready
  /\ projects' = recalculateProjectCompletion(tasks, projects, projectId)
  /\ nops' = nops + 1
  /\ last' = [Op("recalculateProjectCompletion", projectId, Null, projectId, TRUE, <<>>)
                EXCEPT !.value = ProjectCompletionWrite(tasks, projects, projectId)]
  /\ UNCHANGED <<tasks, nextTaskId, nextProjectId, hung, chatVars>>

StRecalcParent(parentTaskId) ==
  /\ Ready
  /\ tasks' = recalculateParentTaskCompletion(tasks, parentTaskId, Fuel(tasks))
  /\ hung' = ~CascadeReturns(tasks, parentTaskId, Fuel(tasks))
  /\ nops' = nops + 1
  /\ last' = Op("recalculateParentTaskCompletion", parentTaskId, parentTaskId, Null,
                CascadeReturns(tasks, parentTaskId, Fuel(tasks)), <<>>)
  /\ UNCHANGED <<projects, nextTaskId, nextProjectId, chatVars>>

NextStorage ==
  \/ \E pc \in PcInputs : StCreateProject(pc)
  \/ \E p \in ProjectIds, pc \in PcInputs : StUpdateProject(p, pc)
  \/ \E b \in InsertTasks : StCreateTask(b)
  \/ \E t \in TaskIds, b \in PatchBodies : StUpdateTask(t, b)
  \/ \E t \in TaskIds, o \in Orders : StDeleteTask(t, o)
  \/ \E p \in ProjectIds : StRecalcProject(p)
  \/ \E t \in TaskIds : StRecalcParent(t)

SpecStorage == Init /\ [][NextStorage]_vars


\* ================================================================ claims
\* v is the mean of the percentages of the tasks S (S not empty) rounded to
\* the nearest integer, a half rounding up:  mean - 1/2 < v <= mean + 1/2
IsRoundedMean(v, ts, S) ==
  LET n == Cardinality(S)
      total == SumPercent(ts, S)
  IN 2 * n * v <= 2 * total + n /\ 2 * total + n < 2 * n * v + 2 * n

\* the mean of the tasks S is exactly some x + 1/2
IsHalfMean(ts, S) == (2 * SumPercent(ts, S)) % (2 * Cardinality(S)) = Cardinality(S)

\* the chain of parents above task t, cut after fuel steps
RECURSIVE AncestorsOf(_, _, _)
AncestorsOf(ts, t, fuel) ==
  IF fuel = 0 \/ t \notin DOMAIN ts \/ ts[t].parentTaskId = Null
     \/ ts[t].parentTaskId \notin DOMAIN ts
  THEN {}
  ELSE {ts[t].parentTaskId} \cup AncestorsOf(ts, ts[t].parentTaskId, fuel - 1)

\* t and every task below it
RECURSIVE SubtreeOf(_, _, _)
SubtreeOf(ts, t, fuel) ==
  IF fuel = 0 THEN {t}
  ELSE {t} \cup UNION {SubtreeOf(ts, c, fuel - 1) : c \in ChildrenOf(ts, t)}

TaskMutations ==
  {"POST /api/tasks", "PATCH /api/tasks", "DELETE /api/tasks", "create_task", "update_task"}
TaskUpdates == {"PATCH /api/tasks", "update_task"}

Consistent(row) == row.isCompleted <=> (row.percentComplete = 100)

\* C1: after any sequence of completed task create / update / delete
\* operations, every task that has a child holds the rounded mean of its
\* direct children's percentComplete.
C1_ParentsHoldChildMean ==
  ~hung => \A t \in DOMAIN tasks :
              ChildrenOf(tasks, t) # {}
                 => IsRoundedMean(tasks[t].percentComplete, tasks, ChildrenOf(tasks, t))

C3_UpdateKeepsCompletedIffHundred ==
  [][(last'.op \in TaskUpdates /\ last'.ok /\ last'.id \in DOMAIN tasks
        /\ Consistent(tasks[last'.id]))
       => Consistent(tasks'[last'.id])]_vars

\* C4: the parent relation is a forest: every non-null parentTaskId names an
\* existing task of the same project and no task is its own ancestor.
C4_ParentRelationIsForest ==
  \A t \in DOMAIN tasks :
     /\ tasks[t].parentTaskId # Null
          => /\ tasks[t].parentTaskId \in DOMAIN tasks
             /\ tasks[tasks[t].parentTaskId].projectId = tasks[t].projectId
     /\ t \notin AncestorsOf(tasks, t, Fuel(tasks))


\* C5: after an update of a task and its cascade, every ancestor of the task,
\* at any depth, holds the rounded mean of its direct children with
\* isCompleted = (percentComplete = 100), the task's project holds the rounded
\* mean of its root tasks (0 without root tasks), and an only child at 100
\* leaves its parent at 100 and completed.
C5_UpwardPropagation ==
  (last.op \in TaskUpdates /\ last.ok /\ last.id \in DOMAIN tasks) =>
    LET t == last.id
        parent == tasks[t].parentTaskId
        roots == RootTasksOf(tasks, tasks[t].projectId)
        pc == projects[tasks[t].projectId].percentComplete
    IN /\ \A a \in AncestorsOf(tasks, t, Fuel(tasks)) :
             /\ IsRoundedMean(tasks[a].percentComplete, tasks, ChildrenOf(tasks, a))
             /\ Consistent(tasks[a])
       /\ IF roots = {} THEN pc = 0 ELSE IsRoundedMean(pc, tasks, roots)
       /\ (tasks[t].percentComplete = 100 /\ parent # Null /\ ChildrenOf(tasks, parent) = {t})
            => tasks[parent].percentComplete = 100 /\ tasks[parent].isCompleted

\* C5 witness: a chain grandparent -> parent -> leaf whose leaf an update_task
\* has set to 100, the parent and the grandparent now at 100 and completed
C5_Witness ==
  /\ last.op = "update_task" /\ last.ok /\ last.id \in DOMAIN tasks
  /\ tasks[last.id].percentComplete = 100
  /\ \E p, g \in DOMAIN tasks :
        /\ Cardinality({last.id, p, g}) = 3
        /\ tasks[last.id].parentTaskId = p /\ tasks[p].parentTaskId = g
        /\ tasks[p].percentComplete = 100 /\ tasks[p].isCompleted
        /\ tasks[g].percentComplete = 100 /\ tasks[g].isCompleted

\* C6: recalcParent on a task with at least one child sets percentComplete to
\* the rounded mean avg of the children, isCompleted to (avg = 100) and status
\* to "completed" if avg = 100, "in-progress" if avg > 0, else the status the
\* task had; children at 100 and 50 give 75, not completed, "in-progress".
C6_RecalcParentAggregates ==
  [][(last'.op = "recalculateParentTaskCompletion" /\ last'.ok
        /\ last'.id \in DOMAIN tasks /\ ChildrenOf(tasks, last'.id) # {})
       => LET kids == ChildrenOf(tasks, last'.id)
              row == tasks'[last'.id]
              avg == row.percentComplete
          IN /\ IsRoundedMean(avg, tasks, kids)
             /\ row.isCompleted = (avg = 100)
             /\ row.status = IF avg = 100 THEN "completed"
                             ELSE IF avg > 0 THEN "in-progress"
                             ELSE tasks[last'.id].status
             /\ (Cardinality(kids) = 2 /\ {tasks[k].percentComplete : k \in kids} = {100, 50})
                  => avg = 75 /\ ~row.isCompleted /\ row.status = "in-progress"]_vars

\* C6 witness: recalcParent has run on a task whose two children are at 100
\* and 50 and left it at 75, "in-progress"
C6_Witness ==
  /\ last.op = "recalculateParentTaskCompletion" /\ last.ok /\ last.id \in DOMAIN tasks
  /\ Cardinality(ChildrenOf(tasks, last.id)) = 2
  /\ {tasks[k].percentComplete : k \in ChildrenOf(tasks, last.id)} = {100, 50}
  /\ tasks[last.id].percentComplete = 75 /\ tasks[last.id].status = "in-progress"

\* C7: recalcProject(p) writes the mean of the root tasks' percentComplete,
\* a half rounded up, counting only tasks without parent, and 0 when the
\* project has no root task; it writes that value whatever the project held.
C7_RecalcProjectWritesRootMean ==
  (last.op = "recalculateProjectCompletion" /\ last.id \in DOMAIN projects) =>
    LET roots == RootTasksOf(tasks, last.id)
        pc == projects[last.id].percentComplete
    IN /\ last.value = pc
       /\ IF roots = {} THEN pc = 0 ELSE IsRoundedMean(pc, tasks, roots)
       /\ (roots # {} /\ IsHalfMean(tasks, roots))
            => 2 * Cardinality(roots) * pc = 2 * SumPercent(tasks, roots) + Cardinality(roots)

\* C7 witness: recalcProject has run on a project whose root tasks average
\* x + 1/2 (99 and 100) and which also has a task that is no root
C7_Witness ==
  /\ last.op = "recalculateProjectCompletion" /\ last.id \in DOMAIN projects
  /\ {tasks[r].percentComplete : r \in RootTasksOf(tasks, last.id)} = {99, 100}
  /\ \E c \in DOMAIN tasks : tasks[c].projectId = last.id /\ tasks[c].parentTaskId # Null
                             /\ tasks[c].percentComplete = 0
  /\ projects[last.id].percentComplete = 100

\* C8: recalcParent changes nothing in the store when the task id is missing
\* or the task has no children (no ancestor is touched either), and
\* recalcProject on a missing project id changes nothing; both return normally.
C8_RecalcNoOp ==
  [][/\ (last'.op = "recalculateParentTaskCompletion"
           /\ (last'.id \notin DOMAIN tasks \/ ChildrenOf(tasks, last'.id) = {}))
          => tasks' = tasks /\ projects' = projects /\ last'.ok /\ ~hung'
     /\ (last'.op = "recalculateProjectCompletion" /\ last'.id \notin DOMAIN projects)
          => tasks' = tasks /\ projects' = projects /\ last'.ok /\ ~hung']_vars

\* C8 witness: recalcParent has run on a childless task at 50 whose parent
\* holds a stale 0
C8_Witness ==
  /\ last.op = "recalculateParentTaskCompletion" /\ last.id \in DOMAIN tasks
  /\ ChildrenOf(tasks, last.id) = {}
  /\ tasks[last.id].percentComplete = 50
  /\ tasks[last.id].parentTaskId # Null
  /\ tasks[tasks[last.id].parentTaskId].percentComplete = 0

\* C9: recalcParent and recalcProject are idempotent: run again on the store
\* they left, they leave every task (status included) and project as it is.
C9_RecalcIdempotent ==
  /\ (last.op = "recalculateParentTaskCompletion" /\ last.ok)
       => recalculateParentTaskCompletion(tasks, last.id, Fuel(tasks)) = tasks
  /\ last.op = "recalculateProjectCompletion"
       => recalculateProjectCompletion(tasks, projects, last.id) = projects

\* C9 witness: recalcParent has run on the middle task of a chain
\* grandparent -> parent -> leaf and moved both ancestors to 50, "in-progress"
C9_Witness ==
  /\ last.op = "recalculateParentTaskCompletion" /\ last.ok /\ last.id \in DOMAIN tasks
  /\ \E l, g \in DOMAIN tasks :
        /\ Cardinality({l, last.id, g}) = 3
        /\ tasks[l].parentTaskId = last.id /\ tasks[last.id].parentTaskId = g
        /\ tasks[l].percentComplete = 50
        /\ tasks[last.id].percentComplete = 50 /\ tasks[last.id].status = "in-progress"
        /\ tasks[g].percentComplete = 50 /\ tasks[g].status = "in-progress"

\* C10: DELETE /api/tasks/:id removes the task and every transitive descendant,
\* children before their parent, and no other task; no remaining task refers
\* to a removed one; the former parent holds the rounded mean of the children
\* it keeps (it is left as it was when it keeps none) and the project the
\* rounded mean of the root tasks it keeps (0 when it keeps none).
C10_DeleteRemovesSubtree ==
  [][(last'.op = "DELETE /api/tasks" /\ last'.ok) =>
       LET t == last'.id
           sub == SubtreeOf(tasks, t, Fuel(tasks))
           log == last'.log
           parent == tasks[t].parentTaskId
           prj == tasks[t].projectId
           roots == RootTasksOf(tasks', prj)
       IN /\ DOMAIN tasks' = (DOMAIN tasks) \ sub
          /\ {log[i] : i \in 1..Len(log)} = sub /\ Len(log) = Cardinality(sub)
          /\ \A i, j \in 1..Len(log) : tasks[log[i]].parentTaskId = log[j] => i < j
          /\ \A r \in DOMAIN tasks' : tasks'[r].parentTaskId \notin sub
          /\ parent # Null =>
               IF ChildrenOf(tasks', parent) # {}
               THEN /\ IsRoundedMean(tasks'[parent].percentComplete, tasks',
                                     ChildrenOf(tasks', parent))
                    /\ Consistent(tasks'[parent])
               ELSE tasks'[parent] = tasks[parent]
          /\ IF roots = {} THEN projects'[prj].percentComplete = 0
             ELSE IsRoundedMean(projects'[prj].percentComplete, tasks', roots)]_vars

\* C10 witness: a DELETE has removed a task and the child under it, the
\* task's former parent remaining
C10_Witness ==
  /\ last.op = "DELETE /api/tasks" /\ last.ok
  /\ Len(last.log) = 2
  /\ last.parentTaskId \in DOMAIN tasks

\* ----------------------------------------------- the action interpreter
ActionOps == {"create_project", "create_task", "update_task", "update_project"}

\* the create_project entries of an execution log
CreatedInBatch(log) == Cardinality({i \in 1..Len(log) : log[i] = "create_project"})

\* the project holds what recalcProject writes for the tasks ts
ProjectAggregated(ts, ps, p) ==
  p \in DOMAIN ps =>
    IF RootTasksOf(ts, p) = {} THEN ps[p].percentComplete = 0
    ELSE IsRoundedMean(ps[p].percentComplete, ts, RootTasksOf(ts, p))

\* C11: the interpreter takes the actions of a batch one at a time in array
\* order, the store effects and the cascade of an action complete when the
\* next one starts; an action that fails or names a task or project that does
\* not exist is skipped (nothing logged, nothing written when it failed before
\* its first write), the loop goes on to the next action, and what earlier
\* actions wrote and logged stays.
C11_BatchInOrderNoRollback ==
  [][(last'.op \in ActionOps) =>
       /\ chat = "running" /\ batchLen' = batchLen + 1
       /\ ~hung' => chat' = "running"
       /\ (last'.ok /\ last'.op \in {"create_task", "update_task"})
            => ProjectAggregated(tasks', projects', last'.projectId)
       /\ last'.ok => executedActions' = Append(executedActions, last'.op)
       /\ (~last'.ok /\ ~hung') =>
            /\ executedActions' = executedActions
            /\ newlyCreatedProjectId' = newlyCreatedProjectId
            /\ DOMAIN tasks \subseteq DOMAIN tasks'
            /\ DOMAIN projects \subseteq DOMAIN projects'
            /\ last'.action.fault \in {"none", "store"}
                 => tasks' = tasks /\ projects' = projects
       /\ ((last'.op = "update_task" /\ last'.id \notin DOMAIN tasks)
             \/ (last'.op = "update_project" /\ last'.id \notin DOMAIN projects))
            => ~last'.ok /\ tasks' = tasks /\ projects' = projects]_vars

\* C11 witness: the second action of a batch named a task that does not
\* exist and was skipped; the project the first action created is still
\* there and logged, and the loop is still running
C11_Witness ==
  /\ chat = "running" /\ ~hung /\ batchLen = 2
  /\ executedActions = <<"create_project">>
  /\ newlyCreatedProjectId \in DOMAIN projects
  /\ last.op = "update_task" /\ ~last.ok /\ last.id \notin DOMAIN tasks
  /\ last.action.fault = "none"

\* C12: a create_task whose projectId is "NEW_PROJECT" and that inserts a
\* task attaches it to the project of the latest successful create_project
\* of the same batch: never to an earlier project of the batch, never to a
\* project of another batch or request.
C12_PlaceholderIsLatestProjectOfBatch ==
  [][(last'.op = "create_task" /\ last'.action.projectId = NEW_PROJECT
        /\ last'.id \in DOMAIN tasks')
       => /\ CreatedInBatch(executedActions) > 0
          /\ tasks'[last'.id].projectId = nextProjectId - 1
          /\ nextProjectId - 1 \in DOMAIN projects]_vars

\* C12 witness: a batch of two create_project actions and a create_task with
\* the placeholder, the task attached to the second project
C12_Witness ==
  /\ executedActions = <<"create_project", "create_project", "create_task">>
  /\ last.op = "create_task" /\ last.ok /\ last.action.projectId = NEW_PROJECT
  /\ DOMAIN projects = {1, 2}
  /\ tasks[last.id].projectId = 2

\* C13: a create_task whose projectId is "NEW_PROJECT" or missing, processed
\* when no create_project of the batch has succeeded, inserts no task, changes
\* no task and no project, logs nothing and leaves the loop running.
C13_PlaceholderWithoutProjectSkipped ==
  [][(last'.op = "create_task" /\ last'.action.projectId \in {NEW_PROJECT, Null}
        /\ CreatedInBatch(executedActions) = 0)
       => /\ tasks' = tasks /\ projects' = projects /\ nextTaskId' = nextTaskId
          /\ executedActions' = executedActions
          /\ ~last'.ok /\ ~hung' /\ chat' = "running"]_vars

\* C13 witness: the store holds a project of an earlier request, and the
\* first action of a batch, a create_task with the placeholder, was skipped
C13_Witness ==
  /\ DOMAIN projects # {} /\ chat = "running" /\ batchLen = 1
  /\ last.op = "create_task" /\ last.action.projectId = NEW_PROJECT /\ ~last.ok
  /\ executedActions = <<>> /\ tasks = <<>>

\* a log of one create_project followed by create_task entries only
IsCreateBatch(log) ==
  /\ Len(log) >= 1 /\ log[1] = "create_project"
  /\ \A i \in 2..Len(log) : log[i] = "create_task"

\* C14: create_project inserts one project with status "active" and
\* percentComplete 0 and nothing else; create_task inserts one task with
\* percentComplete 0, isCompleted false, status "pending", sortOrder 0 (with
\* the placeholder: in the project the batch created) and runs the cascade;
\* while a batch is one create_project followed by create_task actions, the
\* new project holds 0 and so does every task in it.
C14_CreateActionsInsertDefaults ==
  [][/\ (last'.op = "create_project" /\ last'.ok) =>
          /\ last'.id \notin DOMAIN projects
          /\ DOMAIN projects' = DOMAIN projects \cup {last'.id}
          /\ projects'[last'.id].status = "active"
          /\ projects'[last'.id].percentComplete = 0
          /\ \A p \in DOMAIN projects : projects'[p] = projects[p]
          /\ tasks' = tasks
     /\ (last'.op = "create_task" /\ last'.ok) =>
          /\ last'.id \notin DOMAIN tasks
          /\ DOMAIN tasks' = DOMAIN tasks \cup {last'.id}
          /\ DOMAIN projects' = DOMAIN projects
          /\ tasks'[last'.id].percentComplete = 0 /\ ~tasks'[last'.id].isCompleted
          /\ tasks'[last'.id].status = "pending" /\ tasks'[last'.id].sortOrder = 0
          /\ tasks'[last'.id].parentTaskId = last'.action.parentTaskId
          /\ last'.action.projectId = NEW_PROJECT
               => tasks'[last'.id].projectId = newlyCreatedProjectId
          /\ ProjectAggregated(tasks', projects', tasks'[last'.id].projectId)
     /\ (last'.op \in ActionOps /\ IsCreateBatch(executedActions')
           /\ batchLen' = Len(executedActions')) =>
          /\ newlyCreatedProjectId' = nextProjectId' - 1
          /\ projects'[newlyCreatedProjectId'].percentComplete = 0
          /\ \A t \in DOMAIN tasks' :
                tasks'[t].projectId = newlyCreatedProjectId'
                  => tasks'[t].percentComplete = 0 /\ t >= nextTaskId' - (batchLen' - 1)]_vars

\* C14 witness: the batch [create_project, create_task, create_task], both
\* tasks with the placeholder, has left a new project at 0 with two tasks
C14_Witness ==
  /\ executedActions = <<"create_project", "create_task", "create_task">> /\ batchLen = 3
  /\ last.op = "create_task" /\ last.ok /\ last.action.projectId = NEW_PROJECT
  /\ Cardinality({t \in DOMAIN tasks : tasks[t].projectId = newlyCreatedProjectId}) = 2
  /\ projects[newlyCreatedProjectId].percentComplete = 0
  /\ projects[newlyCreatedProjectId].status = "active"

\* C15: an update_task that carries percentComplete = p and no isCompleted
\* stores percentComplete p, isCompleted = (p = 100) and status "completed"
\* if p = 100, "in-progress" if p > 0, "pending" otherwise; after it every
\* ancestor of the task holds the rounded mean of its children and the
\* project what recalcProject writes.
C15_UpdateTaskDerivesFromPercent ==
  [][(last'.op = "update_task" /\ last'.ok
        /\ "percentComplete" \in last'.action.has
        /\ "isCompleted" \notin last'.action.has) =>
       LET t == last'.id
           p == last'.action.percentComplete
       IN /\ tasks'[t].percentComplete = p
          /\ tasks'[t].isCompleted = (p = 100)
          /\ tasks'[t].status = IF p = 100 THEN "completed"
                                ELSE IF p > 0 THEN "in-progress" ELSE "pending"
          /\ \A a \in AncestorsOf(tasks', t, Fuel(tasks')) :
                /\ IsRoundedMean(tasks'[a].percentComplete, tasks', ChildrenOf(tasks', a))
                /\ Consistent(tasks'[a])
          /\ ProjectAggregated(tasks', projects', tasks'[t].projectId)]_vars

\* C15 witness: update_task {percentComplete: 50} on the only child of a
\* root task has left the child, its parent and the project at 50
C15_Witness ==
  /\ last.op = "update_task" /\ last.ok
  /\ last.action.has = {"percentComplete"} /\ last.action.percentComplete = 50
  /\ tasks[last.id].status = "in-progress" /\ ~tasks[last.id].isCompleted
  /\ tasks[last.id].parentTaskId # Null
  /\ tasks[tasks[last.id].parentTaskId].percentComplete = 50
  /\ tasks[tasks[last.id].parentTaskId].status = "in-progress"
  /\ projects[tasks[last.id].projectId].percentComplete = 50

CustomStatus(status) == status \notin {"pending", "in-progress", "completed"}

\* C16 (as claimed): an update_task with percentComplete 0 on a task whose
\* status is a custom value such as "blocked" leaves the status as it is.
C16_ZeroPercentKeepsCustomStatus ==
  [][(last'.op = "update_task" /\ last'.ok
        /\ "percentComplete" \in last'.action.has /\ last'.action.percentComplete = 0
        /\ CustomStatus(tasks[last'.id].status))
       => tasks'[last'.id].status = tasks[last'.id].status]_vars

\* C16 (amended): an update_task with percentComplete 0 sets the status of
\* the task to "pending" whatever it was, a custom value such as "blocked"
\* included; the status is left as it is only by an update_task that carries
\* no percentComplete.
C16_ZeroPercentForcesPending ==
  [][(last'.op = "update_task" /\ last'.ok) =>
       /\ ("percentComplete" \in last'.action.has /\ last'.action.percentComplete = 0)
            => tasks'[last'.id].status = "pending"
       /\ "percentComplete" \notin last'.action.has
            => tasks'[last'.id].status = tasks[last'.id].status]_vars

\* C16 witness: update_task {percentComplete: 0} has run on a task that was
\* "blocked" (the status a POST gave it) and the task is now "pending"
C16_Witness ==
  /\ last.op = "update_task" /\ last.ok
  /\ last.action.has = {"percentComplete"} /\ last.action.percentComplete = 0
  /\ last.action.found = "blocked"
  /\ tasks[last.id].status = "pending" /\ tasks[last.id].percentComplete = 0

\* C17 (as claimed): an update_task that carries isCompleted stores that
\* isCompleted; it stores the percentComplete the action carries when it
\* carries one, 100 when it carries none and isCompleted is true, and leaves
\* percentComplete as it is otherwise.
C17_ExplicitPercentWins ==
  [][(last'.op = "update_task" /\ last'.ok /\ "isCompleted" \in last'.action.has) =>
       /\ tasks'[last'.id].isCompleted = last'.action.isCompleted
       /\ tasks'[last'.id].percentComplete =
            IF "percentComplete" \in last'.action.has THEN last'.action.percentComplete
            ELSE IF last'.action.isCompleted THEN 100
            ELSE tasks[last'.id].percentComplete]_vars

\* C18: an update_project changes the percentComplete of the project it
\* names when the action carries one, its roadblocks when the action carries
\* them, and nothing else: no other column, no other project, no task, and
\* no recalculation of the project; naming a missing project changes nothing.
C18_UpdateProjectFrame ==
  [][(last'.op = "update_project") =>
       LET p == last'.id
           a == last'.action
       IN /\ tasks' = tasks
          /\ DOMAIN projects' = DOMAIN projects
          /\ \A q \in DOMAIN projects : q # p => projects'[q] = projects[q]
          /\ p \notin DOMAIN projects => ~last'.ok /\ projects' = projects
          /\ (p \in DOMAIN projects /\ last'.ok) =>
               /\ projects'[p].percentComplete =
                    IF "percentComplete" \in a.has THEN a.percentComplete
                    ELSE projects[p].percentComplete
               /\ projects'[p].roadblocks =
                    IF "roadblocks" \in a.has THEN a.roadblocks ELSE projects[p].roadblocks
               /\ projects'[p].status = projects[p].status
               /\ projects'[p].categoryId = projects[p].categoryId]_vars

\* C18 witness: an update_project carrying only roadblocks has run on a
\* project that holds 50 over a root task at 0, and the 50 is still there
C18_Witness ==
  /\ last.op = "update_project" /\ last.ok /\ last.action.has = {"roadblocks"}
  /\ projects[last.id].roadblocks = "vendor delay"
  /\ projects[last.id].percentComplete = 50
  /\ RootTasksOf(tasks, last.id) # {}
  /\ \A t \in RootTasksOf(tasks, last.id) : tasks[t].percentComplete = 0

\* the strings that differ by case only
EqualIgnoringCase(x, y) ==
  \/ x = y
  \/ \E class \in {{"Design", "design", "DESIGN"}, {"Ops", "ops"}, {"c1", "C1"}} :
        x \in class /\ y \in class

\* C19: create_project gives the project a null category when the category
\* list is empty; the first category of the list when the action carries no
\* categoryId; the categoryId itself when it is the id of a category;
\* otherwise a category whose name equals it ignoring case; otherwise the
\* first category of the list.
C19_CategoryResolution ==
  (last.op = "create_project" /\ last.ok) =>
    LET c == last.action.categoryId
        got == projects[last.id].categoryId
        idx == 1..Len(categories)
    IN IF categories = <<>> THEN got = "null"
       ELSE IF c = "undefined" THEN got = categories[1].id
       ELSE IF \E i \in idx : categories[i].id = c THEN got = c
       ELSE IF \E i \in idx : EqualIgnoringCase(categories[i].name, c)
            THEN \E i \in idx : EqualIgnoringCase(categories[i].name, c)
                                /\ got = categories[i].id
       ELSE got = categories[1].id

\* C19 witness: create_project {categoryId: "DESIGN"} over a list whose
\* second category is named "Design" has given the project that category
C19_Witness ==
  /\ last.op = "create_project" /\ last.ok /\ last.action.categoryId = "DESIGN"
  /\ Len(categories) = 2
  /\ categories[1].name = "Ops" /\ categories[2].name = "Design"
  /\ projects[last.id].categoryId = categories[2].id

\* C20: the execution log gets one entry per action that succeeded, in
\* action order, and none for an action that did not; as long as the log of
\* a batch is empty the batch has created, changed or deleted no task and no
\* project, also when a storage call of an action rejects after the action's
\* first write.
C20_EmptyLogMeansNoMutation ==
  [][(last'.op \in ActionOps) =>
       /\ executedActions' = IF last'.ok THEN Append(executedActions, last'.op)
                             ELSE executedActions
       /\ executedActions' = <<>> => tasks' = tasks /\ projects' = projects]_vars

\* the frames of a response that streamed n words and ended with frame end
WordsThen(n, end) == [i \in 1..(n + 1) |-> IF i <= n THEN "word" ELSE end]

\* C21: when the AI call returns text that is not JSON, the chat request
\* runs no action and changes no task and no project, its response message
\* is the non-empty fallback of the catch, and the response is the stream of
\* that message ended by the done frame (no error frame and no error
\* status), as long as storing the assistant message does not reject.
C21_NonJsonFallback ==
  [][aiContent' = "notJson" =>
       /\ chat # "idle" => tasks' = tasks /\ projects' = projects
       /\ chat' # "idle" => executedActions' = <<>> /\ batchLen' = 0
       /\ actionResult'.text = "fallback" /\ actionResult'.words > 0
       /\ res' # "json500"
       /\ (res' = "ended" /\ last'.op = "chat done" /\ last'.ok) =>
            frames' = WordsThen(actionResult'.words, "done")]_vars

\* C21 witness: over a store that holds a task, a request whose AI output was
\* not JSON has ended with the eight words of the fallback and the done frame
C21_Witness ==
  /\ aiContent = "notJson" /\ res = "ended" /\ last.op = "chat done" /\ last.ok
  /\ tasks # <<>>
  /\ frames = <<"word", "word", "word", "word", "word", "word", "word", "word", "done">>

\* C22: when the AI call returns JSON that violates the schema (the value
\* null, actions that is no array, no string responseMessage) the request
\* recovers as for text that is not JSON: no action is executed, the message
\* is the canned fallback, and the response is neither an error status nor
\* an error frame.
C22_SchemaViolationRecovers ==
  aiContent \in {"null", "actionsNotIterable", "noMessage"} =>
    /\ chat # "idle" => executedActions = <<>>
    /\ actionResult.text = "fallback"
    /\ res # "json500"
    /\ \A i \in DOMAIN frames : frames[i] # "error"

\* a response that wrote a frame and ended has a done or an error frame last
EndsWithTerminator ==
  (res = "ended" /\ frames # <<>>) => frames[Len(frames)] \in {"done", "error"}

\* C23: every chat request ends its response: a response that wrote at
\* least one frame ends with a done frame or an error frame, and the client
\* that set isStreaming eventually sets it back to false.
C23_ResponseEnds ==
  /\ []EndsWithTerminator
  /\ isStreaming ~> ~isStreaming

\* the ids of a forest, node by node
RECURSIVE TreeIds(_)
TreeIds(forest) ==
  IF forest = <<>> THEN <<>>
  ELSE <<forest[1].id>> \o TreeIds(forest[1].children) \o TreeIds(Tail(forest))

\* the (parent, child) links of a forest whose roots hang under parent
RECURSIVE TreeEdges(_, _)
TreeEdges(forest, parent) ==
  IF forest = <<>> THEN {}
  ELSE {<<parent, forest[1].id>>} \cup TreeEdges(forest[1].children, forest[1].id)
       \cup TreeEdges(Tail(forest), parent)

PositionIn(all, id) == CHOOSE i \in DOMAIN all : all[i].id = id

\* siblings are in ascending sortOrder, equal ones in the order of the list
RECURSIVE SiblingsOrdered(_, _)
SiblingsOrdered(all, forest) ==
  /\ \A i, j \in DOMAIN forest :
        i < j => \/ forest[i].sortOrder < forest[j].sortOrder
                 \/ /\ forest[i].sortOrder = forest[j].sortOrder
                    /\ PositionIn(all, forest[i].id) < PositionIn(all, forest[j].id)
  /\ \A i \in DOMAIN forest : SiblingsOrdered(all, forest[i].children)

\* the chain of parent links that starts at parentId ends at null
RECURSIVE ChainEndsAtNull(_, _, _)
ChainEndsAtNull(all, parentId, fuel) ==
  IF parentId = Null THEN TRUE
  ELSE IF fuel = 0 \/ ~\E i \in DOMAIN all : all[i].id = parentId THEN FALSE
  ELSE ChainEndsAtNull(all, all[PositionIn(all, parentId)].parentTaskId, fuel - 1)

IsForestOf(all, forest) ==
  LET rooted == {i \in DOMAIN all : ChainEndsAtNull(all, all[i].parentTaskId, Len(all))}
  IN /\ Len(TreeIds(forest)) = Cardinality(rooted)
     /\ TreeEdges(forest, Null) = {<<all[i].parentTaskId, all[i].id>> : i \in rooted}
     /\ SiblingsOrdered(all, forest)
     /\ all = <<>> => forest = <<>>

\* C25: buildTaskTree(tasks, null) returns a forest that holds exactly once,
\* under its parent, every task whose chain of parents ends at null, and no
\* other task (so no task whose parentTaskId is the id of no task of the
\* list); siblings are in ascending sortOrder, ties in the order of the
\* list; the empty list gives the empty forest; the list is left as it was.
C25_TaskForest ==
  [][last'.op = "buildTaskTree" => IsForestOf(allTasks, tree') /\ allTasks' = allTasks]_vars

\* C25 witness: of three tasks of equal sortOrder, the second and the third
\* are roots in that order, the first hangs under a task that is not in the
\* list and is left out of the forest
C25_Witness ==
  /\ last.op = "buildTaskTree"
  /\ Len(allTasks) = 3
  /\ allTasks[1].parentTaskId = OutsideId
  /\ allTasks[2].parentTaskId = Null /\ allTasks[3].parentTaskId = Null
  /\ allTasks[2].sortOrder = allTasks[3].sortOrder
  /\ TreeIds(tree) = <<2, 3>>

\* C26: in every reachable state the percentComplete of every task and of
\* every project is an integer from 0 to 100, also after update_task and
\* update_project actions that carry any percentComplete and after the
\* aggregations over such values.
C26_PercentInRange ==
  /\ \A t \in DOMAIN tasks : tasks[t].percentComplete \in 0..100
  /\ \A p \in DOMAIN projects : projects[p].percentComplete \in 0..100

\* C27: in every reachable state every task has status "completed" exactly
\* when its percentComplete is 100, and that exactly when isCompleted is
\* true.
C27_CompletedIffHundred ==
  \A t \in DOMAIN tasks :
    /\ (tasks[t].status = "completed") <=> (tasks[t].percentComplete = 100)
    /\ (tasks[t].percentComplete = 100) <=> tasks[t].isCompleted

\* C28: after recalcParent the task is completed (isCompleted true, status
\* "completed") only if each of its direct children is at 100, and after
\* recalcProject the project is at 100 only if each of its root tasks is at
\* 100.
C28_CompleteOnlyIfAllChildrenAre ==
  /\ (last.op = "recalculateParentTaskCompletion" /\ last.ok /\ last.id \in DOMAIN tasks
        /\ tasks[last.id].isCompleted /\ tasks[last.id].status = "completed")
       => \A k \in ChildrenOf(tasks, last.id) : tasks[k].percentComplete = 100
  /\ (last.op = "recalculateProjectCompletion" /\ last.id \in DOMAIN projects
        /\ projects[last.id].percentComplete = 100)
       => \A r \in RootTasksOf(tasks, last.id) : tasks[r].percentComplete = 100

\* C29: in every reachable state of the store, recalcParent called on any
\* task and deleteTask called on any task return, and no request is left
\* waiting for one of them.
C29_CascadeAndDeleteReturn ==
  /\ ~hung
  /\ \A t \in DOMAIN tasks :
        /\ CascadeReturns(tasks, t, Fuel(tasks))
        /\ DeleteReturns(tasks, t, Fuel(tasks))

TaskCreations == {"POST /api/tasks", "create_task"}

\* the operation that just ended gave a childless task its first child
FirstChildCreated ==
  /\ last'.op \in TaskCreations /\ last'.ok /\ last'.parentTaskId # Null
  /\ ChildrenOf(tasks, last'.parentTaskId) = {}

\* the DELETE that just ended took the last child of a task that remains
LastChildDeleted ==
  /\ last'.op = "DELETE /api/tasks" /\ last'.ok /\ last'.parentTaskId \in DOMAIN tasks'
  /\ ChildrenOf(tasks', last'.parentTaskId) = {}

\* C30 (as claimed): creating the first subtask of a childless task, by POST
\* /api/tasks or create_task, sets the task's percentComplete to 0 and its
\* isCompleted to false and keeps its status; deleting the last child of a
\* task leaves the task's percentComplete, isCompleted and status as they
\* were.
C30_FirstChildZeroes ==
  [][/\ FirstChildCreated =>
          LET before == tasks[last'.parentTaskId]
              after == tasks'[last'.parentTaskId]
          IN /\ after.percentComplete = 0 /\ ~after.isCompleted
             /\ after.status = before.status
     /\ LastChildDeleted => tasks'[last'.parentTaskId] = tasks[last'.parentTaskId]]_vars

\* C30 (amended): creating the first subtask of a childless task overwrites
\* the task with the aggregate of that one child: its percentComplete
\* becomes the child's, isCompleted whether that is 100, status "completed"
\* at 100, "in-progress" above 0 and unchanged at 0; create_task, and a
\* POST /api/tasks without percentComplete, create the child at 0. Deleting
\* the last child of a task leaves the task's row as it was.
C30_FirstChildOverwrites ==
  [][/\ FirstChildCreated =>
          LET before == tasks[last'.parentTaskId]
              after == tasks'[last'.parentTaskId]
              pc == tasks'[last'.id].percentComplete
          IN /\ after.percentComplete = pc /\ after.isCompleted = (pc = 100)
             /\ after.status = IF pc = 100 THEN "completed"
                               ELSE IF pc > 0 THEN "in-progress" ELSE before.status
             /\ last'.op = "create_task" => pc = 0
     /\ LastChildDeleted => tasks'[last'.parentTaskId] = tasks[last'.parentTaskId]]_vars

\* C30 witness: a task that was completed by its only child, lost that child
\* and stayed completed has got a new first child at 0: it is at 0 again,
\* not isCompleted, and still "completed"
C30_Witness ==
  /\ last.op \in TaskCreations /\ last.ok /\ last.parentTaskId \in DOMAIN tasks
  /\ ChildrenOf(tasks, last.parentTaskId) = {last.id}
  /\ tasks[last.id].percentComplete = 0
  /\ tasks[last.parentTaskId].percentComplete = 0
  /\ ~tasks[last.parentTaskId].isCompleted
  /\ tasks[last.parentTaskId].status = "completed"

BothDone == \A r \in Requests : race.reqs[r].pc = "done"

\* the ancestors of the task request r updated hold the rounded mean of
\* their children, and its project that of its root tasks
AggregatesFresh(r) ==
  LET t == race.reqs[r].id
  IN /\ \A a \in AncestorsOf(tasks, t, Fuel(tasks)) :
          IsRoundedMean(tasks[a].percentComplete, tasks, ChildrenOf(tasks, a))
     /\ ProjectAggregated(tasks, projects, tasks[t].projectId)

====
